---- MODULE Spec2Model ----
(***************************************************************************)
(* Model of bridge/mqtt_client.py (YarboMQTTClient): the command           *)
(* dispatcher (send_command and the reply handlers) and the reconnection   *)
(* supervisor (_on_connect, _on_disconnect, _try_rediscovery, update_ip,   *)
(* stop, start, the refresh loop), with bridge/discovery.py's              *)
(* discover_robot as the address discovery they call.                      *)
(***************************************************************************)
EXTENDS Integers, Sequences, FiniteSets, TLC

\* ------------------------------------------------------------------ bounds
\* caller threads that may each issue one send_command
MaxCalls == 2
\* inbound messages the transport thread handles in one behaviour
MaxMsgs == 2

\* rediscovery worker threads that may exist at once
MaxWorkers == 2
\* disconnect callbacks counted in one run without a successful connect
MaxDisconnects == 10

\* the longest payload given to _decompress
MaxPayload == 4

\* self._max_control_commands (50 in the program, line 108), scaled down
MaxControlCommands == 2

\* self._max_trail_points (2000 in the program, line 104), scaled down
MaxTrailPoints == 2
\* telemetry messages handled in one behaviour
MaxClock == 5
\* working_state codes a heartbeat may carry: 0..MaxCode
MaxCode == 8

\* ------------------------------------------------------- program constants
\* time.time() - self._last_rediscovery < 60 (mqtt_client.py:508)
RateLimitSeconds == 60
\* self._disconnect_count == 3 (mqtt_client.py:245)
RediscoverAt == 3
\* self._disconnect_count % 10 == 0 (mqtt_client.py:249)
RediscoverEvery == 10
\* tick % 5 == 0 (mqtt_client.py:576)
HealthCheckEvery == 5

\* ------------------------------------------------------- encoded constants
\* req_id = None (mqtt_client.py:613); also "no req_id field" in a message
NoId == 0
\* self._client = None (mqtt_client.py:55)
NoClient == 0
\* result.rc of a successful publish (mqtt_client.py:621)
RcOk == 0
\* no "working_state_code" key in self._status yet; no "working_state" key
\* in a heartbeat
NoCode == -1
\* self._status["last_heartbeat"] = None (line 68)
NoStamp == 0

Callers == 1..MaxCalls
\* uuid4().hex[:12] values: one fresh id per call that asks for one
ReqIds == 1..MaxCalls
\* An inbound message after decoding is [req_id, seq]: its req_id field, and
\* seq, the arrival number that tells two messages with equal req_id apart.
\* None as the reply of send_command
NoMsg == [req_id |-> NoId, seq |-> 0]

\* hosts of the local /24 that the bridge may be pointed at
Addrs == {"192.168.68.102", "192.168.68.105"}
\* CONFIG["robot_ip"] as configured (config.py:46)
ConfiguredIp == "192.168.68.102"
\* None / "" as an address
NoIp == "none"
\* discover_robot left by an exception instead of a return
Raised == "raised"
NoThread == -1
\* where the one broker of the robot can be: nowhere, or at one address
Places == {{}} \cup {{a} : a \in Addrs}

VARIABLES
    \* ---- session fields read by send_command
    client,             \* self._client: NoClient, or 1 once start() made one
    connected,          \* self._connected
    \* ---- the rest of the session
    status_connected,   \* self._status["connected"]
    robot_ip,           \* self.robot_ip
    config_ip,          \* CONFIG["robot_ip"]
    cached_ip,          \* content of the .robot_ip_cache file, NoIp if none
    disconnect_count,   \* self._disconnect_count
    rediscovery_in_progress,    \* self._rediscovery_in_progress
    rediscovery_age,    \* time.time() - self._last_rediscovery, cut at 60
    stop_refresh,       \* self._stop_refresh.is_set() of the current Event
    refresh,            \* self._refresh_thread: NoThread, or its tick modulo 5
    worker,             \* rediscovery threads: how many are at each place
    route,              \* the thread of the route layer: pc, new_ip
    \* ---- the transport (paho client loop) and the network
    link_state,         \* "none", "connecting", "up" or "stopped"
    link_ip,            \* the host the current client was told to connect to
    up,                 \* addresses that answer a TLS handshake on the port
    stable,             \* the network no longer changes, the user is quiet
    \* ---- observations (history) used to state the claims
    was_connected,      \* some connect has succeeded
    reset_from,         \* the connect that made the session connected found
                        \* the counter above 0
    run_disconnects,    \* disconnect events since the last successful connect
    run_triggers,       \* the numbers, among them, that invoked _try_rediscovery
    \* ---- pending-request tables
    response_events,    \* self._response_events: req_id -> event flag (is_set)
    command_responses,  \* self._command_responses: req_id -> first_stored reply
    \* ---- caller threads inside send_command
    call,               \* per caller: pc, wait, req_id, result, outcome
    next_id,            \* number of req_ids generated so far
    published,          \* per caller: req_id fields of the messages it handed
                        \* to the transport with rc = 0
    \* ---- the transport thread inside _on_message
    hpc,                \* position of the handler
    hmsg,               \* the message it is handling
    inbound,            \* number of messages received so far
    \* ---- observations (history) used to state the claims
    echoed,             \* req_ids carried by the messages received so far
    first_stored,       \* req_id -> the first message the handler stored for it
    set_count,          \* req_id -> number of times its event was released
    \* ---- telemetry store
    status_state,       \* self._status["state"]
    working_state_code, \* self._status["working_state_code"], NoCode if unset
    last_heartbeat,     \* self._status["last_heartbeat"], NoStamp for None
    device_msg,         \* self._device_msg: "none", "dict" or "other"
    trail,              \* self._trail, each point named by its sample number
    trail_active,       \* self._trail_active
    now,                \* the clock, counted in messages handled
    \* ---- observations (history) used to state the claims
    last_op,            \* the operation that ran last, with its input
    job_samples,        \* the points appended since the trail was last empty
    \* ---- discovery.py
    disc,               \* the discover_robot call in progress: its position,
                        \* arguments, the probes made so far and its result
    \* ---- payload decoding
    scan,               \* _scan_subnet in progress: its threads list, the probe
                        \* threads still running and the results list
    dec,                \* the payload of the message being received, whether
                        \* _decompress has run on it and what it returned
    \* ---- the status snapshot
    status,             \* self._status without the keys "connected",
                        \* "state", "last_heartbeat", "working_state_code"
    got_ref,            \* the object a caller of get() holds: none, the
                        \* copy made for it, or the snapshot itself
    copy,               \* the content of the copy made by get()
    control_commands,   \* self._control_commands, each entry by its command
                        \* name and arrival number
    \* ---- observations (history) used to state the claims
    last_payload,       \* topic -> payload of the last data_feedback message
                        \* with that inner topic
    last_msg,           \* the message handled last and what became of it
    tracked,            \* every entry ever appended to the command history
    dm,                 \* self._device_msg key by key, with the frame that
                        \* was merged into it last, what it held before and
                        \* how the handler was left
    \* ---- threads that run beside the session's own
    xport,              \* the callers of stop() and start() in progress, the
                        \* transport clients that were replaced without
                        \* being stopped, and the callbacks those delivered
    lk                  \* self._lock: the thread that holds it, the method
                        \* each thread is in and how far, and the last
                        \* access made to a structure the lock is for

cmdvars == <<response_events, command_responses, call, next_id, published,
             hpc, hmsg, inbound, echoed, first_stored, set_count>>
connvars == <<status_connected, robot_ip, config_ip, cached_ip,
              disconnect_count, rediscovery_in_progress, rediscovery_age,
              stop_refresh, refresh, worker, route, link_state, link_ip, up,
              stable, was_connected, reset_from, run_disconnects, run_triggers>>
sessvars == <<client, connected, connvars>>
telvars == <<status_state, working_state_code, last_heartbeat, device_msg,
             trail, trail_active, now, last_op, job_samples>>
snapvars == <<status, got_ref, copy, control_commands, last_payload,
              last_msg, tracked, dm>>
racevars == <<xport, lk>>
auxvars == <<telvars, disc, scan, dec, snapvars, racevars>>
vars == <<sessvars, cmdvars, auxvars>>

\* ------------------------------------------------------------ dict helpers
\* d.pop(k, None), as a table
Pop(d, k) == [x \in (DOMAIN d) \ {k} |-> d[x]]
\* d[k] = v
Put(d, k, v) == [x \in (DOMAIN d) \cup {k} |-> IF x = k THEN v ELSE d[x]]
\* d.pop(k, None), the value returned
Take(d, k) == IF k \in DOMAIN d THEN d[k] ELSE NoMsg
Empty == [x \in {} |-> NoMsg]

IdleCall == [pc |-> "idle", wait |-> FALSE, req_id |-> NoId,
             result |-> NoMsg, outcome |-> "none"]

\* --------------------------------------------------- send_command, by line
\* line 605: the guard that raises ConnectionError
NotConnectedMutant(cl, conn) == cl = NoClient
NotConnected(cl, conn) == cl = NoClient \/ ~conn

\* line 614: is correlation tracking asked for
WantsReplyMutant(wait) == TRUE
WantsReply(wait) == wait

\* line 623: the pending entry is removed before RuntimeError is raised
DropPendingMutant(events, r) == events
DropPending(events, r) == Pop(events, r)

\* line 630: Event.wait(timeout) returns when the event is set or the
\* timeout has elapsed
WaitOverMutant(events, r, timed_out) == r \in DOMAIN events /\ events[r]
WaitOver(events, r, timed_out) ==
    timed_out \/ (r \in DOMAIN events /\ events[r])

\* lines 446 and 452: self._command_responses[req_id] = data
StoreReplyMutant(responses, m) ==
    [x \in (DOMAIN responses) \cup (DOMAIN response_events) \cup {m.req_id}
        |-> m]
StoreReply(responses, m) == Put(responses, m.req_id, m)

\* lines 605-617: a caller enters send_command(command, payload, wait,
\* timeout); the connection guard, then for a waiting call the fresh req_id
\* and its pending entry
Begin(c, w) ==
    /\ call[c].pc = "idle"
    /\ IF NotConnected(client, connected)
       THEN /\ call' = [call EXCEPT ![c].pc = "done", ![c].wait = w,
                                     ![c].outcome = "ConnectionError"]
            /\ UNCHANGED <<next_id, response_events>>
       ELSE IF WantsReply(w)
       THEN /\ next_id < MaxCalls
            /\ next_id' = next_id + 1
            /\ call' = [call EXCEPT ![c].pc = "publish", ![c].wait = w,
                                     ![c].req_id = next_id + 1]
            /\ response_events' = Put(response_events, next_id + 1, FALSE)
       ELSE /\ call' = [call EXCEPT ![c].pc = "publish", ![c].wait = w]
            /\ UNCHANGED <<next_id, response_events>>
    /\ UNCHANGED <<auxvars, sessvars, command_responses, published, hpc, hmsg,
                   inbound, echoed, first_stored, set_count>>

\* lines 619-627; rc is the transport's result code
Publish(c, rc) ==
    /\ call[c].pc = "publish"
    /\ IF rc # RcOk
       THEN /\ response_events' =
                  IF call[c].req_id # NoId
                  THEN DropPending(response_events, call[c].req_id)
                  ELSE response_events
            /\ call' = [call EXCEPT ![c].pc = "done",
                                     ![c].outcome = "RuntimeError"]
            /\ UNCHANGED published
       ELSE /\ published' =
                  [published EXCEPT ![c] = Append(@, call[c].req_id)]
            /\ IF call[c].wait /\ call[c].req_id # NoId
               THEN call' = [call EXCEPT ![c].pc = "wait"]
               ELSE call' = [call EXCEPT ![c].pc = "done",
                                          ![c].outcome = "returned"]
            /\ UNCHANGED response_events
    /\ UNCHANGED <<auxvars, sessvars, command_responses, next_id, hpc, hmsg, inbound,
                   echoed, first_stored, set_count>>

\* line 630
WaitReturn(c, timed_out) ==
    /\ call[c].pc = "wait"
    /\ WaitOver(response_events, call[c].req_id, timed_out)
    /\ call' = [call EXCEPT ![c].pc = "pop_event"]
    /\ UNCHANGED <<auxvars, sessvars, response_events, command_responses, next_id,
                   published, hpc, hmsg, inbound, echoed, first_stored, set_count>>

\* line 631
PopEvent(c) ==
    /\ call[c].pc = "pop_event"
    /\ response_events' = Pop(response_events, call[c].req_id)
    /\ call' = [call EXCEPT ![c].pc = "pop_reply"]
    /\ UNCHANGED <<auxvars, sessvars, command_responses, next_id, published, hpc,
                   hmsg, inbound, echoed, first_stored, set_count>>

\* line 632
PopReply(c) ==
    /\ call[c].pc = "pop_reply"
    /\ command_responses' = Pop(command_responses, call[c].req_id)
    /\ call' = [call EXCEPT ![c].pc = "done", ![c].outcome = "returned",
                             ![c].result =
                                 Take(command_responses, call[c].req_id)]
    /\ UNCHANGED <<auxvars, sessvars, response_events, next_id, published, hpc, hmsg,
                   inbound, echoed, first_stored, set_count>>

\* ------------------------------------------- _on_message, the reply paths
\* req_ids the device can echo: those of the messages it was sent
Echoable ==
    UNION {{published[c][i] : i \in 1..Len(published[c])} : c \in Callers}
        \cup {NoId}

\* lines 445 and 451: if req_id and req_id in self._response_events
IsPending(events, r) == r # NoId /\ r \in DOMAIN events

\* lines 318-320 and 450-451: a decoded message on a .../reply or .../ack
\* topic reaches _handle_command_reply, which tests its req_id
ReceiveReply(r) ==
    /\ hpc = "idle"
    /\ inbound < MaxMsgs
    /\ r \in Echoable
    /\ inbound' = inbound + 1
    /\ echoed' = echoed \cup {r}
    /\ IF IsPending(response_events, r)
       THEN hpc' = "store" /\ hmsg' = [req_id |-> r, seq |-> inbound + 1]
       ELSE hpc' = "idle" /\ hmsg' = NoMsg
    /\ UNCHANGED <<auxvars, sessvars, response_events, command_responses, call,
                   next_id, published, first_stored, set_count>>

\* lines 299-301 and 329-442: a decoded data_feedback message reaches
\* _handle_data_feedback and its locked telemetry part; an exception in it
\* (a payload of the wrong shape) is caught at line 324 and ends the
\* handling of the message before line 445
ReceiveFeedback(r, raises) ==
    /\ hpc = "idle"
    /\ inbound < MaxMsgs
    /\ r \in Echoable
    /\ inbound' = inbound + 1
    /\ echoed' = echoed \cup {r}
    /\ IF raises
       THEN hpc' = "idle" /\ hmsg' = NoMsg
       ELSE hpc' = "test" /\ hmsg' = [req_id |-> r, seq |-> inbound + 1]
    /\ UNCHANGED <<auxvars, sessvars, response_events, command_responses, call,
                   next_id, published, first_stored, set_count>>

\* line 445, after the lock is released
TestPending ==
    /\ hpc = "test"
    /\ IF IsPending(response_events, hmsg.req_id)
       THEN hpc' = "store" /\ hmsg' = hmsg
       ELSE hpc' = "idle" /\ hmsg' = NoMsg
    /\ UNCHANGED <<auxvars, sessvars, response_events, command_responses, call,
                   next_id, published, inbound, echoed, first_stored,
                   set_count>>

\* lines 446 and 452
StoreResponse ==
    /\ hpc = "store"
    /\ command_responses' = StoreReply(command_responses, hmsg)
    /\ first_stored' =
          [first_stored EXCEPT ![hmsg.req_id] = IF @ = NoMsg THEN hmsg ELSE @]
    /\ hpc' = "set"
    /\ UNCHANGED <<auxvars, sessvars, response_events, call, next_id, published,
                   hmsg, inbound, echoed, set_count>>

\* lines 447 and 453: self._response_events[req_id].set(); the KeyError of
\* an entry removed in the meantime is caught at line 324
SetEvent ==
    /\ hpc = "set"
    /\ IF hmsg.req_id \in DOMAIN response_events
       THEN /\ response_events' =
                  [response_events EXCEPT ![hmsg.req_id] = TRUE]
            /\ set_count' = [set_count EXCEPT ![hmsg.req_id] = @ + 1]
       ELSE UNCHANGED <<response_events, set_count>>
    /\ hpc' = "idle"
    /\ hmsg' = NoMsg
    /\ UNCHANGED <<auxvars, sessvars, command_responses, call, next_id, published,
                   inbound, echoed, first_stored>>

\* ------------------------------------------------------------- the session
\* lines 511-530: where a rediscovery thread can be, with the address it
\* has found
At(pc, ip) == [pc |-> pc, new_ip |-> ip]
WorkerStates ==
    {At("start", NoIp), At("discover", NoIp)}
        \cup {At(pc, a) : pc \in {"update", "restart", "unchanged"},
                           a \in Addrs}
NoWorkers == [x \in WorkerStates |-> 0]
IdleRoute == [pc |-> "boot", new_ip |-> NoIp]

\* __init__ (lines 49-117) on the address init_mqtt_client resolved
InitSession ==
    /\ client = NoClient
    /\ connected = FALSE
    /\ status_connected = FALSE
    /\ robot_ip = ConfiguredIp
    /\ config_ip = ConfiguredIp
    /\ cached_ip \in {NoIp, ConfiguredIp}
    /\ disconnect_count = 0
    /\ rediscovery_in_progress = FALSE
    /\ rediscovery_age = RateLimitSeconds
    /\ stop_refresh = FALSE
    /\ refresh = NoThread
    /\ worker = NoWorkers
    /\ route = IdleRoute
    /\ link_state = "none"
    /\ link_ip = NoIp
    /\ up \in Places
    /\ stable = FALSE
    /\ was_connected = FALSE
    /\ reset_from = FALSE
    /\ run_disconnects = 0
    /\ run_triggers = {}

\* the session after start() (lines 161-195), and after the first
\* _on_connect (lines 211-232) when conn
Started(conn) ==
    /\ client = 1
    /\ connected = conn
    /\ status_connected = conn
    /\ robot_ip = ConfiguredIp
    /\ config_ip = ConfiguredIp
    /\ cached_ip = ConfiguredIp
    /\ disconnect_count = 0
    /\ rediscovery_in_progress = FALSE
    /\ rediscovery_age = RateLimitSeconds
    /\ stop_refresh = FALSE
    /\ refresh = IF conn THEN 0 ELSE NoThread
    /\ worker = NoWorkers
    /\ route = [IdleRoute EXCEPT !.pc = "idle"]
    /\ link_state = IF conn THEN "up" ELSE "connecting"
    /\ link_ip = ConfiguredIp
    /\ up = IF conn THEN {ConfiguredIp} ELSE {}
    /\ stable = FALSE
    /\ was_connected = conn
    /\ reset_from = FALSE
    /\ run_disconnects = 0
    /\ run_triggers = {}

\* ------------------------------------------------------ snapshot values
\* A JSON value held by the snapshot or carried by a message: a dict (a
\* function from keys to leaf values), a scalar (one leaf value, written
\* as a string) or None.
NoItems == [k \in {} |-> ""]
NoVal == [kind |-> "none", items |-> NoItems]
Scalar(v) == [kind |-> "scalar", items |-> [k \in {"v"} |-> v]]
DictOf(f) == [kind |-> "dict", items |-> f]
IsDict(p) == p.kind = "dict"
\* payload.get(k), None when the key is missing
Get(p, k) == IF k \in DOMAIN p.items THEN Scalar(p.items[k]) ELSE NoVal

\* lines 337-376: the inner topics with a slot of their own
TopicSlot ==
    [batteryInfo |-> "battery", runningStatus |-> "running_status",
     electricInfo |-> "electric_info", rtkMSG |-> "rtk_status",
     motorInfo |-> "motor_info", bodyInfoMSG |-> "body_info",
     hubInfoMsg |-> "hub_info", ultrasonicMsg |-> "ultrasonic",
     velocityShow |-> "velocity", netStatusInfo |-> "net_status",
     visionInfo |-> "vision_info", mowerHeadInfo |-> "mower_head_info",
     ledInfoMsg |-> "led_info", odomInfo |-> "odom_info",
     SystemInfoFeedback |-> "system_info"]

\* lines 67-90: self._status after __init__
InitStatus ==
    [k \in {"battery", "battery_level", "state_code", "running_status",
            "electric_info", "rtk_status", "motor_info", "position",
            "body_info", "hub_info", "ultrasonic", "velocity", "net_status",
            "vision_info", "mower_head_info", "led_info", "odom_info",
            "system_info", "last_data_feedback"} |->
        IF k \in {"battery", "battery_level", "state_code",
                  "last_data_feedback"}
        THEN NoVal ELSE DictOf(NoItems)]

NoRef == "none"
NoMessage == [kind |-> "none", topic |-> "", data |-> NoVal,
              outcome |-> "none"]

\* --------------------------------------------------------- specifications
\* no discover_robot call has been made
\* two requests for a reconnect, handled by two threads of the server
Restarters == {"first", "second"}
\* where a transport client that is still running can be
Running2 == {"connecting", "up"}
StaleStates == Running2 \X Addrs
IdleXport == [pc |-> [c \in Restarters |-> "idle"],
              stale |-> [x \in StaleStates |-> 0],
              delivered |-> 0, loops |-> 0]

\* the transport thread and a thread of the server that calls the client
Threads == {"transport", "server"}
NoAccess == [by |-> "none", op |-> "none", on |-> "none", do |-> "none",
             line |-> 0, held |-> FALSE]
IdleLock == [owner |-> "none",
             run |-> [t \in Threads |-> [op |-> "none", pc |-> 0]],
             access |-> NoAccess]

\* self._device_msg is None (line 99) and no frame has arrived
NoStore == [k \in {} |-> NoVal]
NoFrames == [store |-> NoStore, before |-> NoStore, frame |-> <<>>,
             outcome |-> "none", n |-> 0]

IdleDisc == [pc |-> "idle", configured |-> NoIp, subnet |-> FALSE,
             probed |-> <<>>, scanned |-> FALSE, scan_hits |-> {},
             result |-> NoIp, cache_at_call |-> NoIp, write_failed |-> FALSE]

\* lines 65-104: the telemetry store and the trail after __init__
\* _scan_subnet before it is called: no thread started, nothing found.
IdleScan == [pc |-> "idle", exclude |-> 0, host |-> 0, threads |-> <<>>,
             j |-> 1, after |-> "check", alive |-> {}, results |-> <<>>,
             result |-> 0]

InitAux ==
    /\ status_state = "unknown"
    /\ working_state_code = NoCode
    /\ last_heartbeat = NoStamp
    /\ device_msg = "none"
    /\ trail = <<>>
    /\ trail_active = FALSE
    /\ now = 0
    /\ last_op = [op |-> "none", code |-> NoCode, odom |-> FALSE,
                  was_active |-> FALSE, had |-> 0]
    /\ job_samples = <<>>
    /\ disc = IdleDisc
    /\ scan = IdleScan
    /\ dec = [payload |-> <<>>, done |-> FALSE, raised |-> FALSE,
              out |-> <<>>]
    /\ status = InitStatus
    /\ got_ref = NoRef
    /\ copy = InitStatus
    /\ control_commands = <<>>
    /\ tracked = <<>>
    /\ dm = NoFrames
    /\ xport = IdleXport
    /\ lk = IdleLock
    /\ last_payload = [t \in DOMAIN TopicSlot |-> NoVal]
    /\ last_msg = NoMessage

\* The dispatcher is exercised on a session that start() has or has not
\* given a client, connected or not.
InitCmd ==
    /\ InitAux
    /\ \/ InitSession /\ cached_ip = NoIp /\ up = {}
       \/ Started(FALSE)
       \/ Started(TRUE)
    /\ response_events = [x \in {} |-> FALSE]
    /\ command_responses = Empty
    /\ call = [c \in Callers |-> IdleCall]
    /\ next_id = 0
    /\ published = [c \in Callers |-> <<>>]
    /\ hpc = "idle"
    /\ hmsg = NoMsg
    /\ inbound = 0
    /\ echoed = {}
    /\ first_stored = [r \in ReqIds |-> NoMsg]
    /\ set_count = [r \in ReqIds |-> 0]

NextCmd ==
    \/ \E c \in Callers, w \in BOOLEAN : Begin(c, w)
    \/ \E c \in Callers, rc \in {RcOk, 1} : Publish(c, rc)
    \/ \E c \in Callers, t \in BOOLEAN : WaitReturn(c, t)
    \/ \E c \in Callers : PopEvent(c)
    \/ \E c \in Callers : PopReply(c)
    \/ \E r \in ReqIds \cup {NoId} : ReceiveReply(r)
    \/ \E r \in ReqIds \cup {NoId}, e \in BOOLEAN : ReceiveFeedback(r, e)
    \/ TestPending
    \/ StoreResponse
    \/ SetEvent

SpecCmd == InitCmd /\ [][NextCmd]_vars

\* A caller thread keeps running: a timed wait ends when its timeout
\* elapses, and the statements after it are executed.
FairCmd ==
    /\ SpecCmd
    /\ \A c \in Callers :
          /\ WF_vars(\E t \in BOOLEAN : WaitReturn(c, t))
          /\ WF_vars(PopEvent(c))
          /\ WF_vars(PopReply(c))

\* ------------------------------------------------- command dispatcher claims
Waited(c) == call[c].wait /\ call[c].req_id # NoId
Returned(c) == call[c].pc = "done" /\ call[c].outcome = "returned"

\* C1: a message carrying req_id r is stored under r only, releases the event
\* of r only, and is returned only by the call that registered r.
C1_ReplyReachesOnlyItsCall ==
    /\ \A c \in Callers :
          call[c].result # NoMsg => call[c].result.req_id = call[c].req_id
    /\ \A r \in DOMAIN command_responses : command_responses[r].req_id = r
    /\ \A r \in DOMAIN response_events : response_events[r] => r \in echoed

\* two waiting calls were outstanding together: one has returned the reply
\* to its own req_id while the other is still waiting
C1_Witness ==
    \E c, d \in Callers :
        /\ c # d
        /\ Returned(c) /\ call[c].result # NoMsg
        /\ call[d].pc = "wait" /\ call[d].req_id \in echoed

\* C2: a waiting call whose req_id no inbound message carries returns None
\* without raising, and every call that waits returns.
C2_TimeoutReturnsNone ==
    /\ [](\A c \in Callers :
            (call[c].pc = "done" /\ Waited(c) /\ published[c] # <<>>
                /\ call[c].req_id \notin echoed)
            => (call[c].outcome = "returned" /\ call[c].result = NoMsg))
    /\ []<>(\A c \in Callers : call[c].pc \in {"idle", "publish", "done"})

C2_Witness ==
    \E c \in Callers :
        /\ Returned(c) /\ Waited(c)
        /\ call[c].req_id \notin echoed
        /\ call[c].result = NoMsg

\* C3: once a waiting call has returned, neither the pending-event table nor
\* the stored-reply table holds an entry for its req_id.
C3_ReturnedCallLeavesNoEntry ==
    \A c \in Callers :
        (Returned(c) /\ Waited(c))
        => /\ call[c].req_id \notin DOMAIN response_events
           /\ call[c].req_id \notin DOMAIN command_responses

\* C4: per req_id the event is released at most once, and the reply a waiting
\* call returns is the first one stored for its req_id: a later message with
\* the same req_id changes nothing.
C4_ResolvedExactlyOnce ==
    /\ \A r \in ReqIds : set_count[r] <= 1
    /\ \A c \in Callers :
          (Returned(c) /\ call[c].result # NoMsg)
          => call[c].result = first_stored[call[c].req_id]

\* C5: a call made while the session has no client or is not connected
\* ends with ConnectionError in its first step, which publishes nothing,
\* registers nothing and generates no req_id.
C5_NotConnectedFailsFirst ==
    [][\A c \in Callers :
        (call[c].pc = "idle" /\ call'[c].pc # "idle"
            /\ (client = NoClient \/ ~connected))
        => /\ call'[c].pc = "done"
           /\ call'[c].outcome = "ConnectionError"
           /\ call'[c].req_id = NoId
           /\ published' = published
           /\ response_events' = response_events
           /\ command_responses' = command_responses
           /\ next_id' = next_id]_vars

C5_Witness ==
    \E c \in Callers :
        /\ call[c].pc = "done" /\ call[c].outcome = "ConnectionError"
        /\ call[c].wait
        /\ ~connected

\* C6: a call whose publish reports a non-zero result code ends with
\* RuntimeError without having waited, and the pending entry it registered
\* is no longer in the pending-event table.
C6_PublishFailureCleansUp ==
    /\ [](\A c \in Callers :
            call[c].outcome = "RuntimeError"
            => /\ call[c].pc = "done"
               /\ published[c] = <<>>
               /\ call[c].req_id # NoId
                    => call[c].req_id \notin DOMAIN response_events)
    /\ [][\A c \in Callers :
            call'[c].outcome = "RuntimeError" /\ call[c].outcome = "none"
            => call[c].pc = "publish"]_vars

C6_Witness ==
    \E c \in Callers :
        /\ call[c].outcome = "RuntimeError"
        /\ call[c].req_id # NoId

\* C7: a call with wait = false never touches the pending tables and
\* generates no req_id; when it returns it has published exactly one
\* message, without a req_id, and its result is None.
C7_NoWaitNoTracking ==
    /\ [](\A c \in Callers :
            (Returned(c) /\ ~call[c].wait)
            => /\ published[c] = <<NoId>>
               /\ call[c].result = NoMsg
               /\ call[c].req_id = NoId)
    /\ [][\A c \in Callers :
            (call'[c] # call[c] /\ ~call'[c].wait)
            => /\ response_events' = response_events
               /\ command_responses' = command_responses
               /\ next_id' = next_id]_vars

C7_Witness ==
    \E c, d \in Callers :
        /\ Returned(c) /\ ~call[c].wait
        /\ published[c] = <<NoId>>
        /\ call[d].pc = "wait"

\* ------------------------------------------------ reconnection supervisor
obsvars == <<was_connected, reset_from, run_disconnects, run_triggers>>
netvars == <<up, stable>>
ipvars == <<robot_ip, config_ip, cached_ip>>

\* discovery.py lines 39-51: a TLS handshake with ip succeeds
ProbePort(ip) == ip \in up

\* discovery.py lines 131-182: discover_robot(configured_ip, port), as the
\* set of its possible outcomes [ip, cache]: the address returned (NoIp for
\* None) and the content of the cache file afterwards; the subnet scan
\* returns whichever responder was recorded first
DiscoverRobot(configured, cached) ==
    IF configured # NoIp /\ ProbePort(configured)
    THEN {[ip |-> configured, cache |-> configured]}
    ELSE IF cached # NoIp /\ cached # configured /\ ProbePort(cached)
    THEN {[ip |-> cached, cache |-> cached]}
    ELSE IF up = {}
    THEN {[ip |-> NoIp, cache |-> cached]}
    ELSE {[ip |-> f, cache |-> f] : f \in up}

\* lines 505-509: the two early returns of _try_rediscovery
\* lines 526-527: the finally clause of _do_rediscovery gives the flag its
\* value when the worker ends, on every way out of the try block
FlagAtExitMutant == rediscovery_in_progress

FlagAtExit == FALSE

RateLimited ==
    rediscovery_in_progress \/ rediscovery_age < RateLimitSeconds

RECURSIVE Count(_, _)
Count(wk, places) ==
    IF places = {} THEN 0
    ELSE LET x == CHOOSE y \in places : TRUE
         IN  wk[x] + Count(wk, places \ {x})
\* the number of rediscovery threads that are running
Running(wk) == Count(wk, WorkerStates)
Enter(wk, to) == [wk EXCEPT ![to] = @ + 1]
Leave(wk, from) == [wk EXCEPT ![from] = @ - 1]
Move(wk, from, to) == Enter(Leave(wk, from), to)

\* a trigger that passes the early returns needs a thread to start
TriggerRoom == RateLimited \/ Running(worker) < MaxWorkers

\* lines 503-530, the part run by the triggering thread: the worker table
\* after _try_rediscovery()
TryRediscovery(wk) ==
    IF RateLimited \/ Running(wk) >= MaxWorkers
    THEN wk
    ELSE Enter(wk, At("start", NoIp))

\* lines 243-252: the disconnect counts that invoke _try_rediscovery
TriggersAtMutant(n) == n >= RediscoverAt
TriggersAt(n) == n > 1 /\ (n = RediscoverAt \/ n % RediscoverEvery = 0)

\* lines 237-252: _on_disconnect, on every variable but the worker table
Disconnected ==
    /\ disconnect_count' = disconnect_count + 1
    /\ connected' = FALSE
    /\ status_connected' = FALSE
    /\ reset_from' = FALSE
    /\ run_disconnects' = run_disconnects + 1
    /\ run_triggers' = IF TriggersAt(disconnect_count + 1)
                       THEN run_triggers \cup {run_disconnects + 1}
                       ELSE run_triggers
\* lines 243-252: the worker table after _on_disconnect
AfterDisconnect(wk) ==
    IF TriggersAt(disconnect_count + 1) THEN TryRediscovery(wk) ELSE wk
\* the bound on the counter, and room for the thread a trigger may start
MayDisconnect ==
    /\ disconnect_count < MaxDisconnects
    /\ TriggersAt(disconnect_count + 1) => TriggerRoom

\* lines 197-207: stop(), on every variable but the worker table; a
\* refresh thread waiting on the Event that is set leaves its loop; paho's
\* disconnect() on a connected client invokes on_disconnect (cb) before
\* line 205
Stopped(cb) ==
    /\ stop_refresh' = TRUE
    /\ refresh' = NoThread
    /\ IF client = NoClient
       THEN UNCHANGED <<link_state, connected, status_connected, reset_from,
                        disconnect_count, run_disconnects, run_triggers>>
       ELSE /\ link_state' = "stopped"
            /\ IF cb /\ link_state = "up"
               THEN Disconnected
               ELSE /\ connected' = FALSE
                    /\ status_connected' = FALSE
                    /\ reset_from' = FALSE
                    /\ UNCHANGED <<disconnect_count, run_disconnects,
                                   run_triggers>>
\* the worker table after stop()
AfterStop(wk, cb) ==
    IF client # NoClient /\ cb /\ link_state = "up"
    THEN AfterDisconnect(wk) ELSE wk
MayStop(cb) == (cb /\ link_state = "up") => MayDisconnect

\* lines 161-195: start() creates a client and connects it to ip
Starting(ip) ==
    /\ client' = 1
    /\ link_state' = "connecting"
    /\ link_ip' = ip

\* ---- the transport thread
\* line 215: the counter after a successful connect that found it at n
CountAfterConnectMutant(n) == IF n < RediscoverAt THEN 0 ELSE n
CountAfterConnect(n) == 0
\* lines 211-232 and 586-587: on_connect with reason code 0; the thread it
\* starts becomes self._refresh_thread (a thread started earlier and still
\* in its loop is not followed any further)
Connected ==
    /\ connected' = TRUE
    /\ disconnect_count' = CountAfterConnect(disconnect_count)
    /\ status_connected' = TRUE
    /\ refresh' = 0
    /\ was_connected' = TRUE
    /\ reset_from' = (disconnect_count > 0)
    /\ run_disconnects' = 0
    /\ run_triggers' = {}
ConnectOk ==
    /\ link_state = "connecting"
    /\ ProbePort(link_ip)
    /\ link_state' = "up"
    /\ Connected
    /\ UNCHANGED <<client, ipvars, rediscovery_in_progress, rediscovery_age,
                   stop_refresh, worker, route, link_ip, netvars,
                   cmdvars, auxvars>>

\* lines 233-235: on_connect with a non-zero reason code
ConnectRefused ==
    /\ link_state = "connecting"
    /\ ProbePort(link_ip)
    /\ ~stable
    /\ connected' = FALSE
    /\ UNCHANGED <<client, status_connected, ipvars, disconnect_count,
                   rediscovery_in_progress, rediscovery_age, stop_refresh,
                   refresh, worker, route, link_state, link_ip, netvars,
                   obsvars, cmdvars, auxvars>>

\* lines 237-252: the connection is lost; paho starts to reconnect
Drop ==
    /\ link_state = "up"
    /\ stable => ~ProbePort(link_ip)
    /\ MayDisconnect
    /\ link_state' = "connecting"
    /\ Disconnected
    /\ worker' = AfterDisconnect(worker)
    /\ UNCHANGED <<client, ipvars, rediscovery_in_progress, rediscovery_age,
                   stop_refresh, refresh, route, link_ip, netvars,
                   was_connected, cmdvars, auxvars>>

\* lines 237-252: a reconnect attempt of paho gets as far as a socket and
\* loses it again before CONNACK, so on_disconnect is called once more (an
\* attempt that gets no socket calls nothing and changes nothing)
ReconnectFails ==
    /\ link_state = "connecting"
    /\ stable => ~ProbePort(link_ip)
    /\ MayDisconnect
    /\ Disconnected
    /\ worker' = AfterDisconnect(worker)
    /\ UNCHANGED <<client, ipvars, rediscovery_in_progress, rediscovery_age,
                   stop_refresh, refresh, route, link_state, link_ip,
                   netvars, was_connected,
                   cmdvars, auxvars>>

\* ---- a refresh thread
\* lines 566-568 and 576: tick, as far as tick % 5 tells
Tick == (refresh + 1) % HealthCheckEvery

\* line 576: the turns of the loop on which robot_ip is probed; t is the
\* tick modulo 5, conn the connection flag
HealthCheckDueMutant(t, conn) == t = 0 /\ ~conn
HealthCheckDue(t, conn) == t = 0

\* lines 567-584: one turn of refresh_loop: the wait on the stop Event,
\* then the refresh command when connected, and on every 5th tick the
\* probe of robot_ip that invokes _try_rediscovery when it fails
RefreshTick ==
    /\ refresh # NoThread
    /\ IF stop_refresh
       THEN /\ refresh' = NoThread
            /\ UNCHANGED worker
       ELSE /\ refresh' = Tick
            /\ IF HealthCheckDue(Tick, connected) /\ ~ProbePort(robot_ip)
               THEN TriggerRoom /\ worker' = TryRediscovery(worker)
               ELSE UNCHANGED worker
    /\ UNCHANGED <<client, connected, status_connected, ipvars,
                   disconnect_count, rediscovery_in_progress,
                   rediscovery_age, stop_refresh, route, link_state,
                   link_ip, netvars, obsvars, cmdvars, auxvars>>

\* ---- a rediscovery thread (_do_rediscovery)
\* lines 512-513
WorkerStart ==
    /\ worker[At("start", NoIp)] > 0
    /\ rediscovery_in_progress' = TRUE
    /\ rediscovery_age' = 0
    /\ worker' = Move(worker, At("start", NoIp), At("discover", NoIp))
    /\ UNCHANGED <<client, connected, status_connected, ipvars,
                   disconnect_count, stop_refresh, refresh, route,
                   link_state, link_ip, netvars, obsvars, cmdvars, auxvars>>

\* line 518: new_ip and new_ip != old_ip
FoundNewMutant(new_ip, old_ip) == new_ip \in Addrs
FoundNew(new_ip, old_ip) == new_ip \in Addrs /\ new_ip # old_ip

\* lines 515-528: discover_robot, which may also raise (line 524), and the
\* way out when it finds nothing or the address in use
WorkerDiscover(out) ==
    /\ worker[At("discover", NoIp)] > 0
    /\ out \in DiscoverRobot(robot_ip, cached_ip)
                \cup {[ip |-> Raised, cache |-> cached_ip]}
    /\ cached_ip' = out.cache
    /\ IF FoundNew(out.ip, robot_ip)
       THEN /\ worker' = Move(worker, At("discover", NoIp),
                              At("update", out.ip))
            /\ UNCHANGED rediscovery_in_progress
       ELSE /\ worker' = Leave(worker, At("discover", NoIp))
            /\ rediscovery_in_progress' = FlagAtExit
    /\ UNCHANGED <<client, connected, status_connected, robot_ip, config_ip,
                   disconnect_count, rediscovery_age, stop_refresh, refresh,
                   route, link_state, link_ip, netvars, was_connected,
                   reset_from, run_disconnects, run_triggers, cmdvars, auxvars>>

\* line 534: new_ip == self.robot_ip
SameTargetMutant(new_ip, target) == FALSE
SameTarget(new_ip, target) == new_ip = target

\* lines 520 and 534-543: update_ip(new_ip) up to the end of stop(), or
\* all of it, returning False ("unchanged"), when new_ip is the address in
\* use by now
WorkerUpdateStop(new_ip, cb) ==
    /\ worker[At("update", new_ip)] > 0
    /\ IF SameTarget(new_ip, robot_ip)
       THEN /\ worker' = Move(worker, At("update", new_ip),
                              At("unchanged", new_ip))
            /\ UNCHANGED <<connected, status_connected, reset_from, ipvars,
                           disconnect_count, stop_refresh, refresh,
                           link_state, run_disconnects, run_triggers>>
       ELSE /\ MayStop(cb)
            /\ robot_ip' = new_ip
            /\ config_ip' = new_ip
            /\ cached_ip' = new_ip
            /\ Stopped(cb)
            /\ worker' = Move(AfterStop(worker, cb), At("update", new_ip),
                              At("restart", new_ip))
    /\ UNCHANGED <<client, rediscovery_in_progress, rediscovery_age, route,
                   link_ip, netvars,
                   was_connected, cmdvars, auxvars>>

\* lines 544-548 and 527-528: the rest of update_ip, and the way out
WorkerUpdateRestart(new_ip) ==
    /\ worker[At("restart", new_ip)] > 0
    /\ stop_refresh' = FALSE
    /\ Starting(robot_ip)
    /\ worker' = Leave(worker, At("restart", new_ip))
    /\ rediscovery_in_progress' = FlagAtExit
    /\ UNCHANGED <<connected, status_connected, ipvars, disconnect_count,
                   rediscovery_age, refresh, route, netvars, obsvars,
                   cmdvars, auxvars>>

\* lines 527-528: the way out after update_ip has returned False
WorkerUnchanged(new_ip) ==
    /\ worker[At("unchanged", new_ip)] > 0
    /\ worker' = Leave(worker, At("unchanged", new_ip))
    /\ rediscovery_in_progress' = FlagAtExit
    /\ UNCHANGED <<client, connected, status_connected, ipvars,
                   disconnect_count, rediscovery_age, stop_refresh, refresh,
                   route, link_state, link_ip, netvars, obsvars, cmdvars, auxvars>>

\* ---- the route layer
\* the bridge starts the client once it is constructed
RouteStart ==
    /\ route.pc = "boot"
    /\ Starting(robot_ip)
    /\ route' = [route EXCEPT !.pc = "idle"]
    /\ UNCHANGED <<connected, status_connected, ipvars, disconnect_count,
                   rediscovery_in_progress, rediscovery_age, stop_refresh,
                   refresh, worker, netvars, obsvars, cmdvars, auxvars>>

\* routes.py lines 1451-1457: POST /api/mqtt/reconnect, up to the sleep
RouteReconnectStop(cb) ==
    /\ route.pc = "idle"
    /\ ~stable
    /\ MayStop(cb)
    /\ Stopped(cb)
    /\ worker' = AfterStop(worker, cb)
    /\ route' = [route EXCEPT !.pc = "reconnect"]
    /\ UNCHANGED <<client, ipvars, rediscovery_in_progress, rediscovery_age,
                   link_ip, netvars, was_connected, cmdvars, auxvars>>

\* routes.py lines 1458-1459: start() on the Event that stop() has set
RouteReconnectStart ==
    /\ route.pc = "reconnect"
    /\ Starting(robot_ip)
    /\ route' = [route EXCEPT !.pc = "idle"]
    /\ UNCHANGED <<connected, status_connected, ipvars, disconnect_count,
                   rediscovery_in_progress, rediscovery_age, stop_refresh,
                   refresh, worker, netvars, obsvars, cmdvars, auxvars>>

\* routes.py lines 1461-1486 and lines 534-543: POST /api/mqtt/discover,
\* up to the end of the stop() of update_ip
RouteDiscover(out, cb) ==
    /\ route.pc = "idle"
    /\ ~stable
    /\ out \in DiscoverRobot(config_ip, cached_ip)
    /\ IF out.ip = NoIp \/ (out.ip = config_ip /\ connected)
            \/ SameTarget(out.ip, robot_ip)
       THEN /\ cached_ip' = out.cache
            /\ UNCHANGED <<connected, status_connected, reset_from, robot_ip,
                           config_ip,
                           disconnect_count, stop_refresh, refresh, worker,
                           route, link_state, run_disconnects, run_triggers>>
       ELSE /\ MayStop(cb)
            /\ robot_ip' = out.ip
            /\ config_ip' = out.ip
            /\ cached_ip' = out.ip
            /\ Stopped(cb)
            /\ worker' = AfterStop(worker, cb)
            /\ route' = [route EXCEPT !.pc = "update"]
    /\ UNCHANGED <<client, rediscovery_in_progress, rediscovery_age,
                   link_ip, netvars, was_connected, cmdvars, auxvars>>

\* lines 544-548: the rest of update_ip
RouteUpdateRestart ==
    /\ route.pc = "update"
    /\ stop_refresh' = FALSE
    /\ Starting(robot_ip)
    /\ route' = [route EXCEPT !.pc = "idle"]
    /\ UNCHANGED <<connected, status_connected, ipvars, disconnect_count,
                   rediscovery_in_progress, rediscovery_age, refresh, worker,
                   netvars, obsvars, cmdvars, auxvars>>

\* ---- the network and the clock
\* the broker goes away, comes back or moves to another address
BrokerChange(s) ==
    /\ ~stable
    /\ s # up
    /\ up' = s
    /\ UNCHANGED <<client, connected, status_connected, ipvars,
                   disconnect_count, rediscovery_in_progress,
                   rediscovery_age, stop_refresh, refresh, worker, route,
                   link_state, link_ip, stable, obsvars, cmdvars, auxvars>>

\* from here on the broker stays where it is and the user does nothing
Stabilise ==
    /\ ~stable
    /\ up # {}
    /\ route.pc = "idle"
    /\ stable' = TRUE
    /\ UNCHANGED <<client, connected, status_connected, ipvars,
                   disconnect_count, rediscovery_in_progress,
                   rediscovery_age, stop_refresh, refresh, worker, route,
                   link_state, link_ip, up, obsvars, cmdvars, auxvars>>

\* lines 507-509: sixty seconds pass, which ends the window of the rate
\* limit
Advance ==
    /\ rediscovery_age < RateLimitSeconds
    /\ rediscovery_age' = RateLimitSeconds
    /\ UNCHANGED <<client, connected, status_connected, ipvars,
                   disconnect_count, rediscovery_in_progress, stop_refresh,
                   refresh, worker, route, link_state, link_ip, netvars,
                   was_connected, reset_from, run_disconnects, run_triggers,
                   cmdvars, auxvars>>

InitConn ==
    /\ InitSession
    /\ InitAux
    /\ response_events = [x \in {} |-> FALSE]
    /\ command_responses = Empty
    /\ call = [c \in Callers |-> IdleCall]
    /\ next_id = 0
    /\ published = [c \in Callers |-> <<>>]
    /\ hpc = "idle"
    /\ hmsg = NoMsg
    /\ inbound = 0
    /\ echoed = {}
    /\ first_stored = [r \in ReqIds |-> NoMsg]
    /\ set_count = [r \in ReqIds |-> 0]

NextConn ==
    \/ RouteStart
    \/ \E cb \in BOOLEAN : RouteReconnectStop(cb)
    \/ RouteReconnectStart
    \/ \E a \in Addrs \cup {NoIp}, k \in Addrs \cup {NoIp}, cb \in BOOLEAN :
          RouteDiscover([ip |-> a, cache |-> k], cb)
    \/ RouteUpdateRestart
    \/ ConnectOk
    \/ ConnectRefused
    \/ Drop
    \/ ReconnectFails
    \/ RefreshTick
    \/ WorkerStart
    \/ \E a \in Addrs \cup {NoIp, Raised}, k \in Addrs \cup {NoIp} :
          WorkerDiscover([ip |-> a, cache |-> k])
    \/ \E a \in Addrs, cb \in BOOLEAN : WorkerUpdateStop(a, cb)
    \/ \E a \in Addrs : WorkerUpdateRestart(a)
    \/ \E a \in Addrs : WorkerUnchanged(a)
    \/ \E s \in Places : BrokerChange(s)
    \/ Advance

SpecConn == InitConn /\ [][NextConn]_vars

\* the supervisor in a network that settles at some point
NextSettling ==
    \/ NextConn
    \/ Stabilise

\* the scheduling the threads of the program get: the transport thread
\* connects when the broker answers and notices a connection whose peer is
\* gone, the timer thread wakes up, a rediscovery thread and a request in
\* progress run on, and time passes
FairConn ==
    /\ InitConn /\ [][NextSettling]_vars
    /\ WF_vars(ConnectOk)
    /\ WF_vars(Drop /\ ~ProbePort(link_ip))
    /\ WF_vars(RefreshTick)
    /\ WF_vars(WorkerStart)
    /\ WF_vars(\E a \in Addrs \cup {NoIp, Raised}, k \in Addrs \cup {NoIp} :
                  WorkerDiscover([ip |-> a, cache |-> k]))
    /\ WF_vars(\E a \in Addrs, cb \in BOOLEAN : WorkerUpdateStop(a, cb))
    /\ WF_vars(\E a \in Addrs : WorkerUpdateRestart(a))
    /\ WF_vars(\E a \in Addrs : WorkerUnchanged(a))
    /\ WF_vars(RouteStart)
    /\ WF_vars(RouteReconnectStart)
    /\ WF_vars(RouteUpdateRestart)
    /\ WF_vars(Advance)

\* ------------------------------------------------ claims on the supervisor

\* C8: once the session has been connected and lost, and the broker stays
\* reachable at one address from some point on, the session is eventually
\* connected again with robot_ip a reachable address, whatever disconnects,
\* rediscoveries, address updates and explicit reconnects came before.
C8_RecoversAutomatically ==
    [](stable /\ was_connected => <>(connected /\ ProbePort(robot_ip)))

\* C9: however the triggers of the disconnect handler and of the health
\* check interleave, the rediscovery threads run discover_robot at most
\* once in any 60 seconds; in particular no two of them are in
\* discover_robot at the same time.
C9_OneDiscoveryPerWindow == worker[At("discover", NoIp)] <= 1

\* C10: in a run of disconnects with no successful connect in between the
\* failure counter is the number of disconnects of the run, and the
\* rediscovery trigger was invoked on the 3rd disconnect and on every later
\* one whose count is a multiple of 10, and on no other; after three
\* disconnects it was invoked once and the counter is 3.
C10_CounterAndTriggers ==
    /\ disconnect_count = run_disconnects
    /\ run_triggers = {n \in 1..run_disconnects :
                          n = 3 \/ (n > 3 /\ n % 10 = 0)}
    /\ run_disconnects = 3 =>
          Cardinality(run_triggers) = 1 /\ disconnect_count = 3
C10_Witness ==
    /\ run_disconnects = 10
    /\ run_triggers = {3, 10}
    /\ disconnect_count = 10

\* C11: every successful connect (on_connect with reason code 0) sets the
\* failure counter to 0 and marks the session connected, whichever path
\* made the connection (the transport's own reconnect, the restart of a
\* rediscovery or of an address update, an explicit reconnect); so the
\* counter is 0 whenever the session is connected.
C11_ConnectResetsCounter ==
    /\ [](connected => disconnect_count = 0)
    /\ [][link_state # "up" /\ link_state' = "up" =>
             disconnect_count' = 0 /\ connected' /\ status_connected']_vars
C11_Witness ==
    /\ connected
    /\ reset_from
    /\ disconnect_count = 0
    /\ robot_ip # ConfiguredIp

\* C12: a rediscovery thread that has found an address other than the one
\* it started with sets robot_ip, CONFIG["robot_ip"] and the cache file to
\* the address found and stops the session; when it then starts the session
\* the new client connects to the address found, which is still the target.
C12_NewAddressRestarts ==
    [][\A a \in Addrs :
          /\ worker'[At("restart", a)] > worker[At("restart", a)] =>
                /\ robot_ip' = a /\ config_ip' = a /\ cached_ip' = a
                /\ link_state' = "stopped" /\ ~connected'
          /\ worker'[At("restart", a)] < worker[At("restart", a)] =>
                /\ link_state' = "connecting"
                /\ robot_ip' = a /\ link_ip' = a]_vars

\* C13: a rediscovery run whose discover_robot returns the address in use,
\* finds nothing or raises takes no restart action: it does not call
\* update_ip, and robot_ip, CONFIG["robot_ip"], the transport client and
\* the connection are as they were, with neither stop() nor start() called.
C13_NoRestartWithoutNewAddress ==
    [][worker'[At("discover", NoIp)] < worker[At("discover", NoIp)] =>
          /\ (\A o \in DiscoverRobot(robot_ip, cached_ip) :
                 o.ip \in {NoIp, robot_ip}) =>
                \A a \in Addrs :
                    worker'[At("update", a)] = worker[At("update", a)]
          /\ (\A a \in Addrs :
                 worker'[At("update", a)] = worker[At("update", a)]) =>
                UNCHANGED <<robot_ip, config_ip, client, link_state, link_ip,
                            stop_refresh, refresh, connected,
                            status_connected, disconnect_count>>]_vars
C13_Witness ==
    /\ rediscovery_age = 0
    /\ Running(worker) = 0
    /\ ~rediscovery_in_progress
    /\ robot_ip = ConfiguredIp
    /\ link_state = "connecting"
    /\ ~stop_refresh
    /\ disconnect_count >= RediscoverAt

\* C14: update_ip called with the address in use returns False and changes
\* nothing: robot_ip, CONFIG["robot_ip"], the cache file, the connection
\* flags and the transport client are as they were and neither stop() nor
\* start() runs; called with another address it sets the three to it, stops
\* the session, and then starts it and returns True.
C14_UpdateSameAddressIsNoOp ==
    [][\A a \in Addrs :
          /\ worker'[At("update", a)] < worker[At("update", a)] =>
                IF a = robot_ip
                THEN /\ worker'[At("unchanged", a)] > worker[At("unchanged", a)]
                     /\ UNCHANGED <<ipvars, client, link_state, link_ip,
                                    connected, status_connected, stop_refresh,
                                    refresh, disconnect_count>>
                ELSE /\ worker'[At("restart", a)] > worker[At("restart", a)]
                     /\ robot_ip' = a /\ config_ip' = a /\ cached_ip' = a
                     /\ stop_refresh' /\ ~connected'
                     /\ client # NoClient => link_state' = "stopped"
          /\ worker'[At("restart", a)] < worker[At("restart", a)] =>
                client' # NoClient /\ link_state' = "connecting"]_vars
C14_Witness ==
    \E a \in Addrs : worker[At("unchanged", a)] > 0 /\ robot_ip = a

\* ------------------------------------------------------- the telemetry store
Codes == 0..MaxCode
Op(op, code, odom) ==
    [op |-> op, code |-> code, odom |-> odom, was_active |-> trail_active,
     had |-> Len(trail)]

\* lines 293-295: state_map.get(ws_code, "unknown")
StateMapMutant(c) ==
    CASE c = 0 -> "idle" [] c = 1 -> "working" [] c = 2 -> "paused"
      [] c = 3 -> "charging" [] c = 4 -> "error" [] c = 5 -> "docking"
      [] c = 6 -> "returning" [] OTHER -> "unknown"
StateMap(c) ==
    CASE c = 0 -> "standby" [] c = 1 -> "idle" [] c = 2 -> "working"
      [] c = 3 -> "charging" [] c = 4 -> "docking" [] c = 5 -> "error"
      [] c = 6 -> "returning" [] c = 7 -> "paused" [] OTHER -> "unknown"

\* lines 286-297: _on_message on a heart_beat topic; code is the payload's
\* "working_state", NoCode when it has none
Heartbeat(code) ==
    /\ now < MaxClock
    /\ now' = now + 1
    /\ status_connected' = TRUE
    /\ last_heartbeat' = now + 1
    /\ IF code # NoCode
       THEN /\ status_state' = StateMap(code)
            /\ working_state_code' = code
       ELSE UNCHANGED <<status_state, working_state_code>>
    /\ last_op' = Op("heart_beat", code, FALSE)
    /\ UNCHANGED <<client, connected, ipvars, disconnect_count,
                   rediscovery_in_progress, rediscovery_age, stop_refresh,
                   refresh, worker, route, link_state, link_ip, netvars,
                   obsvars, cmdvars, device_msg, trail, trail_active,
                   job_samples, disc, scan, dec,
                   snapvars, racevars>>

\* lines 435-436: self._trail[-self._max_trail_points:] once the trail is
\* longer than the maximum
TrimMutant(t) ==
    IF Len(t) > MaxTrailPoints THEN SubSeq(t, 1, MaxTrailPoints) ELSE t
Trim(t) ==
    IF Len(t) > MaxTrailPoints
    THEN SubSeq(t, Len(t) - MaxTrailPoints + 1, Len(t))
    ELSE t

\* lines 420-423: the trail when the job starts
TrailAtStartMutant(t) == t
TrailAtStart(t) == <<>>
\* lines 424-426: the trail when the job ends
TrailAtStopMutant(t) == <<>>
TrailAtStop(t) == t

\* lines 328-335 and 410-436: _handle_data_feedback on a get_device_msg
\* message without req_id; is_dict: the payload is a dict, planning:
\* StateMSG.on_going_planning is truthy, odom: CombinedOdom has x and y
DeviceMsg(is_dict, planning, odom) ==
    /\ now < MaxClock
    /\ now' = now + 1
    /\ device_msg' = IF is_dict THEN "dict" ELSE "other"
    /\ IF is_dict
       THEN LET starts == planning /\ ~trail_active
                stops == ~planning /\ trail_active
                active == IF starts THEN TRUE
                          ELSE IF stops THEN FALSE ELSE trail_active
                held == IF starts THEN TrailAtStart(trail)
                        ELSE IF stops THEN TrailAtStop(trail) ELSE trail
                seen == IF starts THEN <<>> ELSE job_samples
            IN  /\ trail_active' = active
                /\ trail' = IF active /\ odom
                            THEN Trim(Append(held, now + 1)) ELSE held
                /\ job_samples' = IF active /\ odom
                                  THEN Append(seen, now + 1) ELSE seen
       ELSE UNCHANGED <<trail, trail_active, job_samples>>
    /\ last_op' = Op("get_device_msg", NoCode, is_dict /\ odom)
    /\ UNCHANGED <<sessvars, cmdvars, status_state, working_state_code,
                   last_heartbeat, disc, scan, dec,
                   snapvars, racevars>>

\* lines 303-315: _on_message on a DeviceMSG topic merges the payload into
\* self._device_msg
RealtimeDeviceMsg ==
    /\ now < MaxClock
    /\ now' = now + 1
    /\ device_msg' = "dict"
    /\ last_op' = Op("DeviceMSG", NoCode, FALSE)
    /\ UNCHANGED <<sessvars, cmdvars, status_state, working_state_code,
                   last_heartbeat, trail, trail_active, job_samples, disc, scan, dec,
                   snapvars, racevars>>

\* lines 706-709: clear_trail()
ClearTrail ==
    /\ trail' = <<>>
    /\ job_samples' = <<>>
    /\ last_op' = Op("clear_trail", NoCode, FALSE)
    /\ UNCHANGED <<sessvars, cmdvars, status_state, working_state_code,
                   last_heartbeat, device_msg, trail_active, now, disc, scan, dec,
                   snapvars, racevars>>

InitTel ==
    /\ InitConn
    /\ cached_ip = NoIp
    /\ up = {}

NextTel ==
    \/ \E code \in Codes \cup {NoCode} : Heartbeat(code)
    \/ \E d \in BOOLEAN, p \in BOOLEAN, o \in BOOLEAN : DeviceMsg(d, p, o)
    \/ RealtimeDeviceMsg
    \/ ClearTrail

SpecTel == InitTel /\ [][NextTel]_vars

\* ------------------------------------------------------------ trail bounding
LastOf(s, n) == IF Len(s) > n THEN SubSeq(s, Len(s) - n + 1, Len(s)) ELSE s

\* C15: the trail never holds more than the maximum number of samples, and
\* it is the most recent ones, in arrival order, of the samples appended
\* since the job started (or since the trail was last cleared): once more
\* than the maximum have been appended, exactly the last maximum remain.
C15_TrailBounded ==
    /\ Len(trail) <= MaxTrailPoints
    /\ trail = LastOf(job_samples, MaxTrailPoints)
    /\ Len(job_samples) > MaxTrailPoints => Len(trail) = MaxTrailPoints

C15_Witness ==
    /\ trail_active
    /\ Len(job_samples) > MaxTrailPoints
    /\ last_op.op = "get_device_msg"
    /\ last_op.odom
    /\ trail # SubSeq(job_samples, 1, Len(trail))

\* C16: a step that leaves the trail inactive and is not clear_trail() keeps
\* the trail exactly as it was, whether the step is the one that ends the
\* job or a later device message with a position sample; after clear_trail()
\* the trail is empty.
C16_InactiveTrailKept ==
    /\ [][~trail_active' /\ last_op'.op # "clear_trail" => trail' = trail]_vars
    /\ [](last_op.op = "clear_trail" => trail = <<>>)

C16_Witness ==
    /\ ~trail_active
    /\ trail # <<>>
    /\ last_op.op = "get_device_msg"
    /\ last_op.odom
    /\ ~last_op.was_active

\* C20: a heartbeat sets the connection flag and stamps last_heartbeat; with
\* a working-state code the state becomes the name mapped to the code
\* ("working" for 2, "unknown" for a code outside the table) and the code is
\* stored; without one the state and the stored code stay as they were.
C20_Heartbeat ==
    [][last_op'.op = "heart_beat" /\ now' # now =>
         /\ status_connected'
         /\ last_heartbeat' = now'
         /\ last_heartbeat' # NoStamp
         /\ LET c == last_op'.code
            IN  IF c = NoCode
                THEN /\ status_state' = status_state
                     /\ working_state_code' = working_state_code
                ELSE /\ working_state_code' = c
                     /\ status_state' = StateMap(c)
                     /\ c = 2 => status_state' = "working"
                     /\ c > 7 => status_state' = "unknown"]_vars

C20_Witness ==
    /\ last_op.op = "heart_beat"
    /\ last_op.code = NoCode
    /\ status_state = "working"
    /\ working_state_code = 2
    /\ status_connected
    /\ last_heartbeat = now

\* -------------------------------------------------------- discovery.py alone
\* an address with an empty label, which socket.create_connection rejects
\* with UnicodeError before any packet is sent
Malformed == "192.168..102"
MalformedIps == {Malformed}

\* discovery.py lines 39-51: what _probe_port(ip) does; the except clause of
\* line 50 names OSError, ssl.SSLError, ConnectionRefusedError and
\* TimeoutError, any other exception leaves the function
ProbeOutcome(ip) ==
    IF ip \in MalformedIps THEN Raised
    ELSE IF ProbePort(ip) THEN "open" ELSE "closed"

Probed(ip, by) == [ip |-> ip, by |-> by, out |-> ProbeOutcome(ip)]

\* discovery.py line 150: the configured address is returned when its
\* probe succeeds
ConfiguredWinsMutant(out) == FALSE
ConfiguredWins(out) == out = "open"

\* discovery.py lines 122-128: save_cached_ip(ip); written is FALSE when the
\* write fails, which is logged and ignored
SaveCachedIpMutant(ip, written) == cached_ip
SaveCachedIp(ip, written) == IF written THEN ip ELSE cached_ip

\* discovery.py lines 131-134: a call of discover_robot(configured, port,
\* subnet); subnet tells whether the caller passed one
DiscoverCall(configured, subnet) ==
    /\ disc.pc \in {"idle", "done"}
    /\ disc' = [IdleDisc EXCEPT !.pc = "configured",
                                !.configured = configured,
                                !.subnet = subnet,
                                !.cache_at_call = cached_ip]
    /\ UNCHANGED <<sessvars, cmdvars, telvars, scan, dec,
                   snapvars, racevars>>

\* discovery.py lines 147-154: strategy 1, with save_cached_ip
DiscoverConfigured(written) ==
    /\ disc.pc = "configured"
    /\ IF disc.configured = NoIp
       THEN /\ disc' = [disc EXCEPT !.pc = "cached"]
            /\ UNCHANGED cached_ip
       ELSE LET p == Probed(disc.configured, "configured")
            IN  IF p.out = Raised
                THEN /\ disc' = [disc EXCEPT !.pc = "done",
                                             !.probed = Append(@, p),
                                             !.result = Raised]
                     /\ UNCHANGED cached_ip
                ELSE IF ConfiguredWins(p.out)
                THEN /\ disc' = [disc EXCEPT !.pc = "done",
                                             !.probed = Append(@, p),
                                             !.result = disc.configured,
                                             !.write_failed = ~written]
                     /\ cached_ip' = SaveCachedIp(disc.configured, written)
                ELSE /\ disc' = [disc EXCEPT !.pc = "cached",
                                             !.probed = Append(@, p)]
                     /\ UNCHANGED cached_ip
    /\ UNCHANGED <<client, connected, status_connected, robot_ip, config_ip,
                   disconnect_count, rediscovery_in_progress, rediscovery_age,
                   stop_refresh, refresh, worker, route, link_state, link_ip,
                   netvars, obsvars, cmdvars, telvars, scan, dec,
                   snapvars, racevars>>

\* discovery.py lines 156-163: strategy 2; loaded is FALSE when the cache
\* file cannot be read (lines 110-119 return None)
DiscoverCached(loaded) ==
    /\ disc.pc = "cached"
    /\ LET cached == IF loaded THEN cached_ip ELSE NoIp
       IN  IF cached # NoIp /\ cached # disc.configured
           THEN LET p == Probed(cached, "cached")
                IN  IF p.out = "open"
                    THEN disc' = [disc EXCEPT !.pc = "done",
                                              !.probed = Append(@, p),
                                              !.result = cached]
                    ELSE disc' = [disc EXCEPT !.pc = "scan",
                                              !.probed = Append(@, p)]
           ELSE disc' = [disc EXCEPT !.pc = "scan"]
    /\ UNCHANGED <<sessvars, cmdvars, telvars, scan, dec,
                   snapvars, racevars>>

\* discovery.py lines 165-182 with _scan_subnet (lines 70-107): strategy 3;
\* detected is FALSE when _get_local_subnet() returns None, found is the
\* first responder recorded (NoIp when there is none)
DiscoverScan(detected, found, written) ==
    /\ disc.pc = "scan"
    /\ IF ~(disc.subnet \/ detected)
       THEN /\ found = NoIp
            /\ disc' = [disc EXCEPT !.pc = "done", !.result = NoIp]
            /\ UNCHANGED cached_ip
       ELSE /\ IF up = {} THEN found = NoIp ELSE found \in up
            /\ disc' = [disc EXCEPT !.pc = "done", !.scanned = TRUE,
                                    !.scan_hits = up, !.result = found,
                                    !.write_failed = found # NoIp /\ ~written]
            /\ cached_ip' = IF found # NoIp
                            THEN SaveCachedIp(found, written)
                            ELSE cached_ip
    /\ UNCHANGED <<client, connected, status_connected, robot_ip, config_ip,
                   disconnect_count, rediscovery_in_progress, rediscovery_age,
                   stop_refresh, refresh, worker, route, link_state, link_ip,
                   netvars, obsvars, cmdvars, telvars, scan, dec,
                   snapvars, racevars>>

\* the hosts that answer on the port change while discovery runs
HostsChange(s) ==
    /\ up # s
    /\ up' = s
    /\ UNCHANGED <<client, connected, status_connected, ipvars,
                   disconnect_count, rediscovery_in_progress, rediscovery_age,
                   stop_refresh, refresh, worker, route, link_state, link_ip,
                   stable, obsvars, cmdvars, auxvars>>

InitDisc == InitConn

NextDisc ==
    \/ \E c \in Addrs \cup {NoIp} \cup MalformedIps, s \in BOOLEAN :
          DiscoverCall(c, s)
    \/ \E w \in BOOLEAN : DiscoverConfigured(w)
    \/ \E l \in BOOLEAN : DiscoverCached(l)
    \/ \E d \in BOOLEAN, f \in Addrs \cup {NoIp}, w \in BOOLEAN :
          DiscoverScan(d, f, w)
    \/ \E s \in SUBSET Addrs : HostsChange(s)

SpecDisc == InitDisc /\ [][NextDisc]_vars

\* C17: a successful probe ends the call with the probed address as result:
\* when the configured address answers, it is returned, the cached address is
\* not probed and the subnet is not scanned. The configured address is probed
\* before the cached one, and the scan runs only after every probe made has
\* failed.
C17_DiscoveryPriority ==
    LET p == disc.probed
    IN  /\ \A i \in 1..Len(p) :
              p[i].out = "open" =>
                  /\ i = Len(p)
                  /\ disc.pc = "done"
                  /\ disc.result = p[i].ip
                  /\ ~disc.scanned
        /\ \A i, j \in 1..Len(p) :
              i < j => p[i].by = "configured" /\ p[j].by = "cached"
        /\ disc.pc \in {"cached", "scan"} \/ disc.scanned =>
              /\ \A i \in 1..Len(p) : p[i].out = "closed"
              /\ disc.configured # NoIp =>
                    Len(p) > 0 /\ p[1] = [ip |-> disc.configured,
                                          by |-> "configured",
                                          out |-> "closed"]

C17_Witness ==
    /\ disc.pc = "done"
    /\ disc.configured \in Addrs
    /\ disc.result = disc.configured
    /\ Len(disc.probed) = 1
    /\ ~disc.scanned
    /\ up = Addrs

\* C18: discover_robot never raises; it returns None when no probe it made
\* succeeded and the scan, if it ran, found no responder (in particular when
\* the subnet could not be determined); an address it returns is one whose
\* probe succeeded.
C18_NotFoundIsNone ==
    disc.pc = "done" =>
        LET p == disc.probed
            hit == {p[i].ip : i \in {j \in 1..Len(p) : p[j].out = "open"}}
                       \cup disc.scan_hits
        IN  /\ disc.result # Raised
            /\ hit = {} => disc.result = NoIp
            /\ disc.result # NoIp => disc.result \in hit

\* ----------------------------------------------------------- _decompress
\* Payloads are byte strings over a few byte values. The two formats are
\* cut down to what decides the outcome of _decompress: a header that
\* names the format, a compressed body and a trailing check value. A gzip
\* member starts with the bytes 1f 8b; a zlib stream starts with a byte
\* whose low four bits are 8 (78 here), so that a payload with the gzip
\* magic is never a zlib stream.
GzipMagic == <<31, 139>>
ZlibHeader == 120
Literal == {1, 2}
Bytes == Literal \cup {31, 120, 139}
Payloads == UNION {[1..n -> Bytes] : n \in 0..MaxPayload}

\* the body inflated: the byte 2 stands for a run of two 1s
RECURSIVE Expand(_)
Expand(body) ==
    IF body = <<>> THEN <<>>
    ELSE (IF Head(body) = 2 THEN <<1, 1>> ELSE <<1>>) \o Expand(Tail(body))

\* the check value that closes a stream
Check(data) == 1 + (Len(data) % 2)

\* a decoder either returns data or raises
Failed == [ok |-> FALSE, data |-> <<>>]
Decoded(data) == [ok |-> TRUE, data |-> data]

\* header, body and check value of a stream with an n-byte header
Unpack(p, n) ==
    LET body == SubSeq(p, n + 1, Len(p) - 1)
    IN  IF /\ Len(p) > n
           /\ \A i \in 1..Len(body) : body[i] \in Literal
           /\ p[Len(p)] = Check(Expand(body))
        THEN Decoded(Expand(body))
        ELSE Failed

\* line 259: payload[:2] == b"\x1f\x8b"
HasMagic(p) == Len(p) >= 2 /\ SubSeq(p, 1, 2) = GzipMagic

\* lines 260-261: gzip.GzipFile(fileobj=io.BytesIO(payload)).read()
Gunzip(p) == IF HasMagic(p) THEN Unpack(p, 2) ELSE Failed

\* line 263: zlib.decompress(payload)
Inflate(p) ==
    IF Len(p) >= 1 /\ p[1] = ZlibHeader THEN Unpack(p, 1) ELSE Failed

\* lines 264-265: except Exception: return payload
OnErrorMutant(p) == [raised |-> TRUE, out |-> <<>>]
OnError(p) == [raised |-> FALSE, out |-> p]

\* lines 256-265: _decompress(payload)
Decompress(p) ==
    LET r == IF HasMagic(p) THEN Gunzip(p) ELSE Inflate(p)
    IN  IF r.ok THEN [raised |-> FALSE, out |-> r.data] ELSE OnError(p)

\* the transport receives one more byte of a message; the first byte
\* after a decoded message starts the next one
Arrive(b) ==
    /\ IF dec.done
       THEN dec' = [payload |-> <<b>>, done |-> FALSE, raised |-> FALSE,
                    out |-> <<>>]
       ELSE /\ Len(dec.payload) < MaxPayload
            /\ dec' = [dec EXCEPT !.payload = Append(@, b)]
    /\ UNCHANGED <<sessvars, cmdvars, telvars, disc, scan,
                   snapvars, racevars>>

\* line 270: raw = self._decompress(msg.payload)
Decode ==
    /\ ~dec.done
    /\ dec.payload \in Payloads
    /\ dec' = [dec EXCEPT !.done = TRUE,
                          !.raised = Decompress(dec.payload).raised,
                          !.out = Decompress(dec.payload).out]
    /\ UNCHANGED <<sessvars, cmdvars, telvars, disc, scan,
                   snapvars, racevars>>

InitDecode ==
    /\ InitConn
    /\ cached_ip = NoIp
    /\ up = {}

NextDecode ==
    \/ \E b \in Bytes : Arrive(b)
    \/ Decode

SpecDecode == InitDecode /\ [][NextDecode]_vars

\* C19: _decompress never raises; a payload with the gzip magic that decodes
\* yields the gzip-decoded bytes, a payload that zlib decodes yields the
\* zlib-decoded bytes, and every other payload is returned unchanged.
C19_DecodeNeverRaises ==
    LET p == dec.payload
    IN  dec.done =>
        /\ ~dec.raised
        /\ HasMagic(p) /\ Gunzip(p).ok => dec.out = Gunzip(p).data
        /\ Inflate(p).ok => dec.out = Inflate(p).data
        /\ ~(HasMagic(p) /\ Gunzip(p).ok) /\ ~Inflate(p).ok => dec.out = p

C19_Witness ==
    /\ dec.done
    /\ HasMagic(dec.payload)
    /\ Len(dec.payload) > 2
    /\ ~Gunzip(dec.payload).ok
    /\ ~dec.raised
    /\ dec.out = dec.payload

\* ------------------------------------------------------ the status snapshot
\* lines 712-717: _decode_state(code), codes written as their digits
DecodeState(c) ==
    CASE c = "0" -> "idle" [] c = "1" -> "working" [] c = "2" -> "paused"
      [] c = "3" -> "charging" [] c = "4" -> "error" [] c = "5" -> "docking"
      [] c = "6" -> "returning" [] OTHER -> "unknown_" \o c

\* inner topics whose payload goes to a field of its own, not to _status
\* (lines 397-439)
LiveTopics == {"get_map", "read_all_plan", "read_gps_ref", "read_schedules",
               "read_global_params", "get_device_msg", "preview_plan_path"}

\* line 356: self._status.update(payload)
Update(st, f) ==
    [k \in DOMAIN st \cup DOMAIN f |->
        IF k \in DOMAIN f THEN Scalar(f[k]) ELSE st[k]]

\* lines 339-341: payload.get("level", payload.get("battery_level"))
BatteryLevel(p) ==
    IF "level" \in DOMAIN p.items
    THEN Get(p, "level") ELSE Get(p, "battery_level")

\* line 344: payload.get("state", payload.get("robot_state"))
StateCode(p) ==
    IF "state" \in DOMAIN p.items
    THEN Get(p, "state") ELSE Get(p, "robot_state")

\* line 379: payload.get("ip", "") if the payload is a dict, else ""
WifiIp(p) == IF IsDict(p) /\ "ip" \in DOMAIN p.items THEN p.items["ip"] ELSE ""

\* lines 337-442: self._status after the branch chosen by the inner topic
\* status["connected"] and status["last_heartbeat"] are keys of the same dict
\* the router writes.  The flat state bag is merged with
\* self._status.update(payload) (lines 354-356) and an unlisted topic is
\* stored under its own name (441-442), so a bag with one of the two keys, or
\* a topic of that name, replaces the field.  JSON true and false are the
\* item values "true" and "false"; DeviceStamp is a stamp the device chose.
\* The model keeps the truth value of the connection field.
DeviceStamp == -2

TruthyItem(v) == v \notin {"false", "0", ""}

Truthy(p) ==
    CASE IsDict(p) -> p.items # NoItems
      [] p.kind = "scalar" -> TruthyItem(p.items["v"])
      [] OTHER -> FALSE

FlagAfter(flag, topic, payload) ==
    CASE topic = "stateInfo" /\ IsDict(payload)
                             /\ "connected" \in DOMAIN payload.items ->
            TruthyItem(payload.items["connected"])
      [] topic = "connected" -> Truthy(payload)
      [] OTHER -> flag

StampAfter(stamp, topic, payload) ==
    CASE topic = "stateInfo" /\ IsDict(payload)
                             /\ "last_heartbeat" \in DOMAIN payload.items ->
            DeviceStamp
      [] topic = "last_heartbeat" -> DeviceStamp
      [] OTHER -> stamp

\* The router's final else branch (mqtt_client.py 441-442): a topic none of
\* the elif tests matched is stored under its own name.
RecognisedTopics ==
    DOMAIN TopicSlot \cup LiveTopics \cup {"stateInfo", "get_connect_wifi_name"}

CatchAllMutant(st, topic, payload) == st

CatchAll(st, topic, payload) == Put(st, topic, payload)

\* The two branches that call .get() on the payload without testing that it
\* is a dict (lines 344 and 439): a non-dict payload raises AttributeError
\* there, after the slot was written, and _on_message logs it (324-325).
FeedbackRaises(topic, payload) ==
    topic \in {"runningStatus", "preview_plan_path"} /\ ~IsDict(payload)

StatusAfter(st, topic, payload) ==
    CASE topic = "batteryInfo" ->
            IF IsDict(payload)
            THEN Put(Put(st, "battery", payload),
                     "battery_level", BatteryLevel(payload))
            ELSE Put(st, "battery", payload)
      [] topic = "runningStatus" ->
            IF IsDict(payload) /\ StateCode(payload) # NoVal
            THEN Put(Put(st, "running_status", payload),
                     "state_code", StateCode(payload))
            ELSE Put(st, "running_status", payload)
      [] topic = "stateInfo" ->
            IF IsDict(payload) THEN Update(st, payload.items) ELSE st
      [] topic = "get_connect_wifi_name" ->
            IF WifiIp(payload) # ""
            THEN Put(Put(st, "wifi_info", payload),
                     "robot_wifi_ip", Scalar(WifiIp(payload)))
            ELSE Put(st, "wifi_info", payload)
      [] topic \in LiveTopics -> st
      [] topic \in DOMAIN TopicSlot \ {"batteryInfo", "runningStatus"} ->
            Put(st, TopicSlot[topic], payload)
      [] OTHER -> CatchAll(st, topic, payload)

\* the data_feedback messages the robot is made to send
Level42 == DictOf([k \in {"level"} |-> "42"])
FeedbackMsgs ==
    {[topic |-> t, data |-> p] :
        t \in {"batteryInfo", "rtkMSG"}, p \in {Level42, Scalar("text")}}
    \cup {[topic |-> "runningStatus",
           data |-> DictOf([k \in {"state"} |-> "1"])]}
    \cup {[topic |-> "stateInfo", data |-> DictOf([k \in {key} |-> "7"])] :
             key \in {"heading", "battery"}}
    \cup {[topic |-> "battery", data |-> Scalar("text")]}
    \cup {[topic |-> "get_connect_wifi_name",
           data |-> DictOf([k \in {"ip"} |-> a])] : a \in Addrs}
    \cup {[topic |-> "get_connect_wifi_name",
           data |-> DictOf([k \in {"name"} |-> "yard"])]}

\* lines 327-442: _handle_data_feedback on a message without req_id;
\* written is FALSE when save_cached_ip cannot write the file
\* lines 388-395: the session's target address after a self-report of
\* wifi_ip: both branches only call save_cached_ip
TargetAfterReportMutant(target, wifi_ip) ==
    IF wifi_ip # "" /\ wifi_ip # target THEN wifi_ip ELSE target
TargetAfterReport(target, wifi_ip) == target

DataFeedback(m, written) ==
    /\ now < MaxClock
    /\ now' = now + 1
    /\ status' = StatusAfter(Put(status, "last_data_feedback",
                                 Scalar(ToString(now + 1))),
                             m.topic, m.data)
    /\ status_state' =
          IF /\ m.topic = "runningStatus"
             /\ IsDict(m.data)
             /\ StateCode(m.data) # NoVal
          THEN DecodeState(StateCode(m.data).items["v"])
          ELSE status_state
    /\ cached_ip' = IF m.topic = "get_connect_wifi_name" /\ WifiIp(m.data) # ""
                    THEN SaveCachedIp(WifiIp(m.data), written)
                    ELSE cached_ip
    /\ robot_ip' = IF m.topic = "get_connect_wifi_name"
                   THEN TargetAfterReport(robot_ip, WifiIp(m.data))
                   ELSE robot_ip
    /\ last_payload' = IF m.topic \in DOMAIN TopicSlot
                       THEN [last_payload EXCEPT ![m.topic] = m.data]
                       ELSE last_payload
    /\ last_msg' = [kind |-> "data_feedback", topic |-> m.topic,
                    data |-> m.data,
                    outcome |-> IF FeedbackRaises(m.topic, m.data)
                                THEN "logged" ELSE "handled"]
    /\ status_connected' = FlagAfter(status_connected, m.topic, m.data)
    /\ last_heartbeat' = StampAfter(last_heartbeat, m.topic, m.data)
    /\ UNCHANGED <<client, connected, config_ip,
                   disconnect_count, rediscovery_in_progress, rediscovery_age,
                   stop_refresh, refresh, worker, route, link_state, link_ip,
                   netvars, obsvars, cmdvars, working_state_code,
                   device_msg, trail, trail_active, last_op,
                   job_samples, disc, scan, dec, racevars, got_ref, copy,
                   control_commands, tracked, dm>>

\* ---- the front of _on_message
\* what the payload of a message is after _decompress: a JSON text in
\* UTF-8, a text that is not JSON, or bytes that are not UTF-8
RawKinds == {"json", "not_json", "not_utf8"}

\* line 273: json.loads(raw.decode("utf-8")) returns
DecodesMutant(kind) == kind # "not_utf8"
Decodes(kind) == kind = "json"

\* line 274: the errors the inner try catches, and line 324: the outer one
InnerCaught(kind) == kind \in {"not_json", "not_utf8"}
OuterCaught(kind) == TRUE

\* lines 269-276 and 324-325: how the handler is left
Outcome(kind) ==
    IF Decodes(kind) THEN "handled"
    ELSE IF InnerCaught(kind) THEN "dropped"
    ELSE IF OuterCaught(kind) THEN "logged" ELSE "raised"

\* lines 458-469: the topics _track_control_command keeps
ControlTopics == {"cmd_vel", "cmd_roller", "set_working_state",
                  "set_plan_roller", "start_plan", "stop", "pause", "resume",
                  "dock", "preview_plan_path"}

\* lines 471-492: _track_control_command(topic, data); a topic is given by
\* the command name it contains
TrimCommandsMutant(all) ==
    IF Len(all) > MaxControlCommands
    THEN SubSeq(all, 1, MaxControlCommands) ELSE all
TrimCommands(all) ==
    IF Len(all) > MaxControlCommands
    THEN SubSeq(all, Len(all) - MaxControlCommands + 1, Len(all))
    ELSE all
TrackControl(cc, tp) ==
    IF tp \in ControlTopics
    THEN TrimCommands(Append(cc, [command |-> tp, seq |-> now + 1]))
    ELSE cc

\* lines 268-297 and 322-325: _on_message on a heart_beat topic or on the
\* topic of a control command, with a payload of the given kind; code is
\* the "working_state" of a heartbeat that decodes
Inbound(tp, kind, code) ==
    /\ now < MaxClock
    /\ now' = now + 1
    /\ last_msg' = [kind |-> kind, topic |-> tp, data |-> NoVal,
                    outcome |-> Outcome(kind)]
    /\ IF Decodes(kind)
       THEN /\ control_commands' = TrackControl(control_commands, tp)
            /\ tracked' = IF tp \in ControlTopics
                          THEN Append(tracked,
                                      [command |-> tp, seq |-> now + 1])
                          ELSE tracked
            /\ IF tp = "heart_beat"
               THEN /\ status_connected' = TRUE
                    /\ last_heartbeat' = now + 1
                    /\ IF code # NoCode
                       THEN /\ status_state' = StateMap(code)
                            /\ working_state_code' = code
                       ELSE UNCHANGED <<status_state, working_state_code>>
                    /\ last_op' = Op("heart_beat", code, FALSE)
               ELSE UNCHANGED <<status_connected, last_heartbeat,
                                status_state, working_state_code, last_op>>
       ELSE UNCHANGED <<control_commands, tracked, status_connected,
                        last_heartbeat,
                        status_state, working_state_code, last_op>>
    /\ UNCHANGED <<client, connected, ipvars, disconnect_count,
                   rediscovery_in_progress, rediscovery_age, stop_refresh,
                   refresh, worker, route, link_state, link_ip, netvars,
                   obsvars, cmdvars, device_msg, trail, trail_active,
                   job_samples, disc, scan, dec, racevars, status, got_ref, copy,
                   last_payload, dm>>

InitSnap == InitCmd /\ client # NoClient

NextSnap ==
    \/ \E m \in FeedbackMsgs, w \in BOOLEAN : DataFeedback(m, w)

SpecSnap == InitSnap /\ [][NextSnap]_vars

\* C21: each slot of a named telemetry category holds the payload of the
\* last data_feedback message received with that category's inner topic.
C21_LastWriteWins ==
    \A t \in DOMAIN TopicSlot :
        last_payload[t] # NoVal => status[TopicSlot[t]] = last_payload[t]

\* ------------------------------------------------------------------ get()
CopyRef == "copy"
StatusRef == "snapshot"

\* line 662: the object get() returns
GetRefMutant == StatusRef
GetRef == CopyRef

\* the mapping a caller sees through the object it holds
Held == IF got_ref = StatusRef THEN status ELSE copy

\* lines 659-662: get() builds dict(self._status) under the lock
GetStatus ==
    /\ got_ref' = GetRef
    /\ copy' = IF GetRef = CopyRef THEN status ELSE copy
    /\ last_msg' = [kind |-> "get", topic |-> "", data |-> NoVal,
                    outcome |-> "handled"]
    /\ UNCHANGED <<sessvars, cmdvars, telvars, disc, scan, dec, racevars, status,
                   control_commands, last_payload, tracked, dm>>

\* the caller's own keys and values
CallerKeys == {"battery", "note"}

\* a caller of get() assigns a top-level key of the mapping it was given
CallerAssign(k, v) ==
    /\ got_ref # NoRef
    /\ IF got_ref = StatusRef
       THEN status' = Put(status, k, v) /\ UNCHANGED copy
       ELSE copy' = Put(copy, k, v) /\ UNCHANGED status
    /\ last_msg' = [kind |-> "caller", topic |-> k, data |-> v,
                    outcome |-> "handled"]
    /\ UNCHANGED <<sessvars, cmdvars, telvars, disc, scan, dec, racevars, got_ref,
                   control_commands, last_payload, tracked, dm>>

\* a caller of get() removes a top-level key of the mapping it was given
CallerRemove(k) ==
    /\ got_ref # NoRef
    /\ k \in DOMAIN Held
    /\ IF got_ref = StatusRef
       THEN status' = Pop(status, k) /\ UNCHANGED copy
       ELSE copy' = Pop(copy, k) /\ UNCHANGED status
    /\ last_msg' = [kind |-> "caller", topic |-> k, data |-> NoVal,
                    outcome |-> "handled"]
    /\ UNCHANGED <<sessvars, cmdvars, telvars, disc, scan, dec, racevars, got_ref,
                   control_commands, last_payload, tracked, dm>>

\* the messages that arrive while callers hold copies
GetMsgs == {m \in FeedbackMsgs : m.topic \in {"batteryInfo", "stateInfo"}}

InitGet == InitSnap

NextGet ==
    \/ \E m \in GetMsgs : DataFeedback(m, TRUE)
    \/ GetStatus
    \/ \E k \in CallerKeys : CallerAssign(k, Scalar("mine"))
    \/ \E k \in CallerKeys : CallerRemove(k)

SpecGet == InitGet /\ [][NextGet]_vars

\* C22: what a caller does to the top-level keys of the mapping get() gave
\* it never changes the snapshot, and an update of the snapshot by a later
\* message never changes the mapping the caller holds.
C22_GetReturnsCopy ==
    /\ [][last_msg'.kind = "caller" => status' = status]_vars
    /\ [][last_msg'.kind = "data_feedback" /\ got_ref # NoRef =>
              Held' = Held]_vars

C22_Witness ==
    /\ got_ref = CopyRef
    /\ last_msg.kind = "data_feedback"
    /\ status["battery"] = Level42
    /\ "battery" \notin DOMAIN copy
    /\ "note" \in DOMAIN copy
    /\ "note" \notin DOMAIN status

\* the messages of the broker: heartbeats and control commands of every
\* kind of payload, and battery reports
BatteryMsgs == {m \in FeedbackMsgs : m.topic = "batteryInfo"}

NextMsg ==
    \/ \E tp \in {"heart_beat", "cmd_vel"}, kind \in RawKinds,
          code \in {2, NoCode} : Inbound(tp, kind, code)
    \/ \E m \in BatteryMsgs : DataFeedback(m, FALSE)

SpecMsg == InitSnap /\ [][NextMsg]_vars

\* C23: a message whose payload does not decode as UTF-8 JSON leaves the
\* handler without raising and changes neither the snapshot, the connection
\* flags, the pending tables, the trail nor the command history.
C23_UndecodableDropped ==
    [][last_msg'.kind \in {"not_json", "not_utf8"} /\ now' # now =>
          /\ last_msg'.outcome \in {"dropped", "logged"}
          /\ UNCHANGED <<status, status_connected, status_state,
                         working_state_code, last_heartbeat, connected,
                         response_events, command_responses, trail,
                         trail_active, device_msg, control_commands,
                         disconnect_count>>]_vars

C23_Witness ==
    /\ last_msg.kind = "not_utf8"
    /\ last_msg.topic = "heart_beat"
    /\ last_msg.outcome = "dropped"
    /\ ~status_connected
    /\ last_heartbeat = NoStamp
    /\ Len(control_commands) = 1
    /\ status["battery"] = Level42

C25_RefreshWhileConnected == connected => refresh # NoThread

\* C28: a device message that reports a job while the trail is inactive
\* empties and activates the trail before its own sample is appended: after
\* it the trail holds the sample of that message and nothing else, and no
\* later step brings back a sample the trail did not hold, so the trail
\* has no sample from before the start of the job.
C28_TrailResetAtStart ==
    /\ [][~trail_active /\ trail_active' =>
             trail' = IF last_op'.odom THEN <<now'>> ELSE <<>>]_vars
    /\ [][\A i \in 1..Len(trail') :
             trail'[i] = now' \/ \E j \in 1..Len(trail) : trail[j] = trail'[i]]_vars

C28_Witness ==
    /\ trail_active
    /\ last_op.op = "get_device_msg"
    /\ ~last_op.was_active
    /\ last_op.had = MaxTrailPoints
    /\ last_op.odom
    /\ trail = <<now>>

\* C29: a self-report of an address other than the one the session is
\* connected to changes the snapshot and at most the cached address, which
\* becomes the reported one: the target address, the runtime config, the
\* transport client and its connection, the refresh thread and its stop
\* Event, the rediscovery threads, flags and clock and the failure counter
\* stay as they were.
C29_SelfReportOnlyCaches ==
    [][(/\ last_msg'.kind = "data_feedback"
        /\ last_msg'.topic = "get_connect_wifi_name"
        /\ now' # now
        /\ WifiIp(last_msg'.data) \notin {"", robot_ip}) =>
          /\ cached_ip' \in {WifiIp(last_msg'.data), cached_ip}
          /\ status'["robot_wifi_ip"] = Scalar(WifiIp(last_msg'.data))
          /\ UNCHANGED <<robot_ip, config_ip, client, link_state, link_ip,
                         connected, status_connected, stop_refresh, refresh,
                         worker, rediscovery_in_progress, rediscovery_age,
                         disconnect_count>>]_vars

C29_Witness ==
    /\ last_msg.kind = "data_feedback"
    /\ last_msg.topic = "get_connect_wifi_name"
    /\ WifiIp(last_msg.data) \in Addrs \ {robot_ip}
    /\ cached_ip = WifiIp(last_msg.data)
    /\ "robot_wifi_ip" \in DOMAIN status
    /\ status["robot_wifi_ip"] = Scalar(cached_ip)
    /\ robot_ip = ConfiguredIp
    /\ connected

\* the session on its own: the transport connects and loses the connection,
\* the refresh thread turns, the broker comes and goes, and rediscovery
\* threads run discover_robot while no broker answers; no route is called
\* after the start
NextHealth ==
    \/ RouteStart
    \/ ConnectOk
    \/ Drop
    \/ RefreshTick
    \/ WorkerStart
    \/ \E a \in {NoIp, Raised}, k \in Addrs \cup {NoIp} :
          WorkerDiscover([ip |-> a, cache |-> k])
    \/ \E s \in Places : BrokerChange(s)
    \/ Advance

SpecHealth == InitConn /\ [][NextHealth]_vars

\* C30: on every 5th turn of the refresh loop robot_ip is probed, whether
\* or not the session is connected: when the probe fails the turn does what
\* _try_rediscovery() does, and when it succeeds, as on every other turn,
\* the rediscovery threads stay as they were.
C30_HealthCheck ==
    [][refresh # NoThread /\ ~stop_refresh /\ refresh' = Tick
            /\ link_state' = link_state =>
          worker' = IF Tick = 0 /\ ~ProbePort(robot_ip)
                    THEN TryRediscovery(worker) ELSE worker]_vars

\* the session has been connected without a break since the bridge started
\* it, the broker has gone unnoticed, and a rediscovery thread was started
C30_Witness ==
    /\ connected
    /\ link_state = "up"
    /\ ~reset_from
    /\ disconnect_count = 0
    /\ ~ProbePort(robot_ip)
    /\ worker[At("start", NoIp)] = 1
    /\ Running(worker) = 1

\* ------------------------------------------- clients that were replaced
\* the bound on the clients that run beside self._client
MaxStale == 1
\* the bound on the callbacks they deliver
MaxDelivered == 3

\* the number of replaced clients that are running
StaleTotal == Count(xport.stale, StaleStates)

\* routes.py lines 1451-1457: POST /api/mqtt/reconnect handled by thread c,
\* up to the sleep: stop() on self._client
RestartStop(c, cb) ==
    /\ route.pc = "idle"
    /\ xport.pc[c] = "idle"
    /\ MayStop(cb)
    /\ Stopped(cb)
    /\ worker' = AfterStop(worker, cb)
    /\ xport' = [xport EXCEPT !.pc[c] = "sleep"]
    /\ UNCHANGED <<client, ipvars, rediscovery_in_progress, rediscovery_age,
                   route, link_ip, netvars, was_connected, cmdvars, telvars,
                   disc, scan, dec, snapvars, lk>>

\* routes.py lines 1458-1459 and lines 173-193: start() by thread c assigns
\* a new client to self._client; the client it held, when no stop() came
\* after its start, goes on running with the same callbacks
RestartStart(c) ==
    /\ xport.pc[c] = "sleep"
    /\ link_state \in Running2 => StaleTotal < MaxStale
    /\ Starting(robot_ip)
    /\ xport' = [xport EXCEPT
                   !.pc[c] = "idle",
                   !.stale = IF link_state \in Running2
                             THEN [@ EXCEPT ![<<link_state, link_ip>>] = @ + 1]
                             ELSE @]
    /\ UNCHANGED <<connected, status_connected, ipvars, disconnect_count,
                   rediscovery_in_progress, rediscovery_age, stop_refresh,
                   refresh, worker, route, netvars, obsvars, cmdvars, telvars,
                   disc, scan, dec, snapvars, lk>>

\* lines 211-232: on_connect, reason code 0, called by a replaced client
StaleConnect(a) ==
    /\ xport.stale[<<"connecting", a>>] > 0
    /\ ProbePort(a)
    /\ xport.delivered < MaxDelivered
    /\ Connected
    /\ xport' = [xport EXCEPT !.stale[<<"connecting", a>>] = @ - 1,
                              !.stale[<<"up", a>>] = @ + 1,
                              !.delivered = @ + 1]
    /\ UNCHANGED <<client, ipvars, rediscovery_in_progress, rediscovery_age,
                   stop_refresh, worker, route, link_state, link_ip, netvars,
                   cmdvars, telvars, disc, scan, dec, snapvars, lk>>

\* lines 237-252: on_disconnect called by a replaced client
StaleDisconnect(a) ==
    /\ xport.stale[<<"up", a>>] > 0
    /\ MayDisconnect
    /\ xport.delivered < MaxDelivered
    /\ Disconnected
    /\ worker' = AfterDisconnect(worker)
    /\ xport' = [xport EXCEPT !.stale[<<"up", a>>] = @ - 1,
                              !.stale[<<"connecting", a>>] = @ + 1,
                              !.delivered = @ + 1]
    /\ UNCHANGED <<client, ipvars, rediscovery_in_progress, rediscovery_age,
                   stop_refresh, refresh, route, link_state, link_ip, netvars,
                   was_connected, cmdvars, telvars, disc, scan, dec, snapvars, lk>>

\* lines 268-297: on_message called by a replaced client with a heartbeat
\* that has no working state
StaleHeartbeat(a) ==
    /\ xport.stale[<<"up", a>>] > 0
    /\ ProbePort(a)
    /\ xport.delivered < MaxDelivered
    /\ now < MaxClock
    /\ now' = now + 1
    /\ status_connected' = TRUE
    /\ last_heartbeat' = now + 1
    /\ last_op' = Op("heart_beat", NoCode, FALSE)
    /\ xport' = [xport EXCEPT !.delivered = @ + 1]
    /\ UNCHANGED <<client, connected, ipvars, disconnect_count,
                   rediscovery_in_progress, rediscovery_age, stop_refresh,
                   refresh, worker, route, link_state, link_ip, netvars,
                   obsvars, cmdvars, status_state, working_state_code,
                   device_msg, trail, trail_active, job_samples, disc, scan, dec,
                   snapvars, lk>>

NextStale ==
    \/ RouteStart
    \/ \E c \in Restarters, cb \in BOOLEAN : RestartStop(c, cb)
    \/ \E c \in Restarters : RestartStart(c)
    \/ ConnectOk
    \/ Drop
    \/ \E a \in Addrs : StaleConnect(a)
    \/ \E a \in Addrs : StaleDisconnect(a)
    \/ \E a \in Addrs : StaleHeartbeat(a)
    \/ \E s \in Places : BrokerChange(s)

SpecStale == InitConn /\ [][NextStale]_vars

\* C26: once start() has put a new client in place, a connect, disconnect
\* or message callback of a client it replaced changes neither the
\* connection flags, nor the failure counter, nor the pending tables.
C26_StaleCallbacksInert ==
    [][xport'.delivered # xport.delivered =>
          UNCHANGED <<connected, status_connected, disconnect_count,
                      response_events, command_responses>>]_vars

\* ----------------------------------------------------------- self._lock
\* one step of a method: taking or leaving "with self._lock", a read or a
\* write of a structure, or anything else (publish, wait, log)
I(do, on, line) == [do |-> do, on |-> on, line |-> line]

\* the methods of the transport thread (callbacks) and of the threads that
\* call the client, as the steps they make on the lock and on the status
\* snapshot, the pending tables, the trail and the command history
Prog(op) ==
    CASE op = "heart_beat" ->            \* lines 286-297
            <<I("acquire", "lock", 287), I("write", "status", 288),
              I("release", "lock", 297)>>
      [] op = "data_feedback" ->         \* lines 327-447, get_device_msg
            <<I("acquire", "lock", 333), I("write", "status", 334),
              I("write", "trail", 430), I("release", "lock", 442),
              I("read", "pending", 445), I("write", "pending", 446)>>
      [] op = "command_reply" ->         \* lines 449-453
            <<I("read", "pending", 451), I("write", "pending", 452)>>
      [] op = "track_control_command" -> \* lines 455-492
            <<I("acquire", "lock", 488), I("write", "history", 489),
              I("release", "lock", 492)>>
      [] op = "send_command" ->          \* lines 591-633, wait=True
            <<I("write", "pending", 617), I("other", "publish", 620),
              I("other", "wait", 630), I("write", "pending", 631),
              I("write", "pending", 632)>>
      [] op = "get" ->                   \* lines 659-662
            <<I("acquire", "lock", 661), I("read", "status", 662),
              I("release", "lock", 662)>>
      [] op = "control_commands" ->      \* lines 688-692
            <<I("acquire", "lock", 691), I("read", "history", 692),
              I("release", "lock", 692)>>
      [] op = "trail" ->                 \* lines 698-700
            <<I("read", "trail", 700)>>
      [] op = "clear_trail" ->           \* lines 706-709
            <<I("acquire", "lock", 708), I("write", "trail", 709),
              I("release", "lock", 709)>>

\* the methods each thread runs
OpsOf(t) ==
    IF t = "transport"
    THEN {"heart_beat", "data_feedback", "command_reply",
          "track_control_command"}
    ELSE {"send_command", "get", "control_commands", "trail", "clear_trail"}

\* the structures the lock is for
Guarded == {"status", "pending", "trail", "history"}

\* thread t enters a method
MethodBegin(t, op) ==
    /\ lk.run[t].op = "none"
    /\ op \in OpsOf(t)
    /\ lk' = [lk EXCEPT !.run[t] = [op |-> op, pc |-> 1]]
    /\ UNCHANGED <<sessvars, cmdvars, telvars, disc, scan, dec, snapvars, xport>>

\* thread t makes the next step of its method; threading.Lock blocks the
\* thread that wants it while another holds it
MethodStep(t) ==
    /\ lk.run[t].op # "none"
    /\ LET prog == Prog(lk.run[t].op)
           i == prog[lk.run[t].pc]
           next == IF lk.run[t].pc = Len(prog)
                   THEN [op |-> "none", pc |-> 0]
                   ELSE [lk.run[t] EXCEPT !.pc = @ + 1]
       IN  /\ i.do = "acquire" => lk.owner = "none"
           /\ lk' = [lk EXCEPT
                       !.run[t] = next,
                       !.owner = IF i.do = "acquire" THEN t
                                 ELSE IF i.do = "release" THEN "none"
                                 ELSE @,
                       !.access = IF i.on \in Guarded
                                  THEN [by |-> t, op |-> lk.run[t].op,
                                        on |-> i.on, do |-> i.do,
                                        line |-> i.line,
                                        held |-> lk.owner = t]
                                  ELSE @]
    /\ UNCHANGED <<sessvars, cmdvars, telvars, disc, scan, dec, snapvars, xport>>

NextLock ==
    \/ \E t \in Threads : \E op \in OpsOf(t) : MethodBegin(t, op)
    \/ \E t \in Threads : MethodStep(t)

SpecLock == InitConn /\ [][NextLock]_vars

\* C27: every read and every write of the status snapshot, the pending
\* tables, the trail and the command history is made by a thread that
\* holds self._lock.
C27_AllUnderLock == lk.access.on \in Guarded => lk.access.held

\* ------------------------------------------------- claims of the last part
\* C31: when discover_robot returns an address, by whichever strategy, and
\* no write of the cache failed during the call, the cache file holds that
\* address when the call returns.
C31_ReturnedIsCached ==
    disc.pc = "done" /\ disc.result \in Addrs /\ ~disc.write_failed =>
        cached_ip = disc.result

C31_Witness ==
    /\ disc.pc = "done"
    /\ disc.scanned
    /\ disc.result \in Addrs
    /\ ~disc.write_failed
    /\ disc.cache_at_call \in Addrs \ {disc.result}
    /\ Len(disc.probed) = 2
    /\ cached_ip = disc.result

\* C32: the command history never holds more than the maximum number of
\* entries, and it is the most recent ones, in arrival order, of all the
\* control commands tracked: once the maximum is reached every new entry
\* evicts the oldest.
C32_HistoryBounded ==
    /\ Len(control_commands) <= MaxControlCommands
    /\ control_commands = LastOf(tracked, MaxControlCommands)
    /\ Len(tracked) >= MaxControlCommands =>
          Len(control_commands) = MaxControlCommands

C32_Witness ==
    /\ Len(tracked) > MaxControlCommands
    /\ last_msg.topic = "cmd_vel"
    /\ last_msg.outcome = "handled"
    /\ control_commands[Len(control_commands)].seq = now
    /\ control_commands[1] # tracked[1]

\* ------------------------------------------------- DeviceMSG frames
\* the bound on the frames handled
MaxFrames == 3

\* the top-level keys and the values of the frames: a scalar, or a dict
\* over the inner keys "a" and "b"
FrameKeys == {"StateMSG", "BatteryMSG"}
FrameVals == {Scalar("7"),
              DictOf([k \in {"a"} |-> "1"]),
              DictOf([k \in {"a"} |-> "3"]),
              DictOf([k \in {"b"} |-> "2"])}
\* a frame is a JSON object: its keys in the order they were sent
Frames ==
    {<<[key |-> k, value |-> v]>> : k \in FrameKeys, v \in FrameVals}
    \cup {<<[key |-> "StateMSG", value |-> v]>>
              \o <<[key |-> "BatteryMSG", value |-> w]>> :
          v \in FrameVals, w \in FrameVals}

\* line 315: d.update(value) on the dict d
UpdateItems(d, value) ==
    DictOf([i \in DOMAIN d.items \cup DOMAIN value.items |->
               IF i \in DOMAIN value.items
               THEN value.items[i] ELSE d.items[i]])

\* lines 312-317: one key of the frame; .update exists on a dict only, so
\* a dict value over a stored scalar raises AttributeError
MergeKey(store, key, value) ==
    IF IsDict(value)
    THEN LET held == IF key \in DOMAIN store
                     THEN store[key] ELSE DictOf(NoItems)
         IN  IF IsDict(held)
             THEN [store |-> Put(store, key, UpdateItems(held, value)),
                   raised |-> FALSE]
             ELSE [store |-> store, raised |-> TRUE]
    ELSE [store |-> Put(store, key, value), raised |-> FALSE]

\* lines 311-317: the loop over data.items(), left at the first key that
\* raises with the keys before it merged
RECURSIVE MergeFrame(_, _)
MergeFrame(store, frame) ==
    IF frame = <<>> THEN [store |-> store, raised |-> FALSE]
    ELSE LET r == MergeKey(store, Head(frame).key, Head(frame).value)
         IN  IF r.raised THEN r ELSE MergeFrame(r.store, Tail(frame))

\* lines 303-317 and 324-325: _on_message on a DeviceMSG topic; what is
\* raised inside is caught and logged by the handler's outer except
DeviceFrame(frame) ==
    /\ dm.n < MaxFrames
    /\ LET r == MergeFrame(dm.store, frame)
       IN  dm' = [store |-> r.store, before |-> dm.store, frame |-> frame,
                  outcome |-> IF r.raised THEN "logged" ELSE "handled",
                  n |-> dm.n + 1]
    /\ device_msg' = "dict"
    /\ UNCHANGED <<sessvars, cmdvars, status_state, working_state_code,
                   last_heartbeat, trail, trail_active, now, last_op,
                   job_samples, disc, scan, dec, racevars, status, got_ref, copy,
                   control_commands, last_payload, last_msg, tracked>>

NextFrame == \E f \in Frames : DeviceFrame(f)

SpecFrame == InitTel /\ [][NextFrame]_vars

\* C33: after a frame every top-level key of it that carried a dict holds a
\* dict with the items of the frame and, beside them, the items the entry
\* had before; every key that carried a scalar holds that scalar; and the
\* frame was handled, whatever the entries held before.
C33_FrameMerged ==
    dm.n > 0 =>
        /\ dm.outcome = "handled"
        /\ \A i \in 1..Len(dm.frame) :
              LET k == dm.frame[i].key
                  v == dm.frame[i].value
              IN  /\ k \in DOMAIN dm.store
                  /\ IF IsDict(v)
                     THEN /\ IsDict(dm.store[k])
                          /\ \A x \in DOMAIN v.items :
                                /\ x \in DOMAIN dm.store[k].items
                                /\ dm.store[k].items[x] = v.items[x]
                          /\ k \in DOMAIN dm.before /\ IsDict(dm.before[k]) =>
                                \A x \in DOMAIN dm.before[k].items
                                          \ DOMAIN v.items :
                                   /\ x \in DOMAIN dm.store[k].items
                                   /\ dm.store[k].items[x]
                                          = dm.before[k].items[x]
                     ELSE dm.store[k] = v

\* ---------------------------------------------------------------------------
\* Data feedback with topics the router has no branch for.  The inner topic
\* is data.get("topic", ""), so a message without the key has topic "".
RouterMsgs ==
    {[topic |-> t, data |-> p] :
        t \in {"newFirmwareInfo", "", "battery"},
        p \in {Level42, Scalar("text")}}
    \cup {[topic |-> t, data |-> Scalar("text")] :
             t \in {"runningStatus", "preview_plan_path", "rtkMSG"}}

NextRoute == \E m \in RouterMsgs : DataFeedback(m, TRUE)

SpecRoute == InitSnap /\ [][NextRoute]_vars

\* C34: a data-feedback message whose inner topic is not a recognised
\* category is stored under that topic name in the snapshot: after the
\* router ran, status[topic] is the message's payload and the router
\* returned normally.
C34_UnknownTopicStored ==
    [][(now' = now + 1 /\ last_msg'.kind = "data_feedback"
            /\ last_msg'.topic \notin RecognisedTopics) =>
          /\ last_msg'.outcome = "handled"
          /\ last_msg'.topic \in DOMAIN status'
          /\ status'[last_msg'.topic] = last_msg'.data
          /\ \A k \in DOMAIN status \ {last_msg'.topic, "last_data_feedback"} :
                 k \in DOMAIN status' /\ status'[k] = status[k]]_vars

C34_Witness ==
    /\ last_msg.kind = "data_feedback"
    /\ last_msg.topic = "newFirmwareInfo"
    /\ last_msg.data = Level42
    /\ "newFirmwareInfo" \in DOMAIN status
    /\ status["newFirmwareInfo"] = Level42
    /\ "" \in DOMAIN status
    /\ status["running_status"] = Scalar("text")

\* ---------------------------------------------------------------------------
\* _scan_subnet (discovery.py 70-107), one step per thread start, per join
\* and per probe that ends.  The hosts of the subnet are 1..MaxHosts and the
\* concurrency limit _MAX_SCAN_THREADS (50, line 35) is scaled to
\* MaxScanThreads.  A join has a timeout of _PROBE_TIMEOUT + 0.5 seconds (97,
\* 105): it returns when the thread has ended or when the time is up, and the
\* code does not look at which.  A probe can outlast it: the 1.5 seconds
\* limit each socket operation of _probe_port (connect, then every read and
\* write of the handshake), not the probe as a whole.
MaxHosts == 5
MaxScanThreads == 2
ScanHosts == 1..MaxHosts

\* Lines 70-79: the call, with the address to leave out (0 for None).
ScanSubnet(exclude_ip) ==
    /\ scan.pc = "idle"
    /\ scan' = [scan EXCEPT !.pc = "loop", !.exclude = exclude_ip]
    /\ UNCHANGED <<sessvars, cmdvars, telvars, disc, dec, snapvars, racevars>>

\* Lines 89-96: the next host gets a thread, which is appended to the list
\* and started; a full list is joined before anything else.
ScanStart ==
    /\ scan.pc = "loop"
    /\ scan.host < MaxHosts
    /\ LET h == scan.host + 1
           list == Append(scan.threads, h)
       IN scan' = [scan EXCEPT
                     !.host = h,
                     !.threads = list,
                     !.alive = @ \cup {h},
                     !.j = 1,
                     !.after = "check",
                     !.pc = IF Len(list) >= MaxScanThreads
                            THEN "join" ELSE "check"]
    /\ UNCHANGED <<sessvars, cmdvars, telvars, disc, dec, snapvars, racevars>>

\* After the last join of a batch the list is cleared (line 98); after the
\* last join of the final loop the function returns (line 107).
AfterJoin(sc) ==
    IF sc.j < Len(sc.threads)
    THEN [sc EXCEPT !.j = @ + 1]
    ELSE IF sc.after = "check"
         THEN [sc EXCEPT !.threads = <<>>, !.j = 1, !.pc = "check"]
         ELSE [sc EXCEPT !.pc = "done",
                         !.result = IF sc.results = <<>> THEN 0
                                    ELSE sc.results[1]]

\* Lines 96-97 and 104-105: tt.join(timeout) on a thread that has ended.
ScanJoin ==
    /\ scan.pc = "join"
    /\ scan.threads # <<>>
    /\ scan.threads[scan.j] \notin scan.alive
    /\ scan' = AfterJoin(scan)
    /\ UNCHANGED <<sessvars, cmdvars, telvars, disc, dec, snapvars, racevars>>

\* The same join on a thread still probing: the timeout passes and the loop
\* moves on.
ScanJoinTimeout ==
    /\ scan.pc = "join"
    /\ scan.threads # <<>>
    /\ scan.threads[scan.j] \in scan.alive
    /\ scan' = AfterJoin(scan)
    /\ UNCHANGED <<sessvars, cmdvars, telvars, disc, dec, snapvars, racevars>>

\* Lines 99-101 and the end of the for loop: leave the loop once a result is
\* there or the hosts are used up, then join what is left in the list.
ScanEarlyExit ==
    /\ scan.pc = "check"
    /\ scan' = IF scan.results # <<>> \/ scan.host = MaxHosts
               THEN IF scan.threads = <<>>
                    THEN [scan EXCEPT !.pc = "done",
                                      !.result = IF scan.results = <<>> THEN 0
                                                 ELSE scan.results[1]]
                    ELSE [scan EXCEPT !.pc = "join", !.j = 1,
                                      !.after = "return"]
               ELSE [scan EXCEPT !.pc = "loop"]
    /\ UNCHANGED <<sessvars, cmdvars, telvars, disc, dec, snapvars, racevars>>

\* _check, lines 81-86: a probe thread ends; the excluded address is never probed,
\* a host that answered is appended to the results.
ProbeEnds(h, answered) ==
    /\ h \in scan.alive
    /\ h = scan.exclude => ~answered
    /\ scan' = [scan EXCEPT
                  !.alive = @ \ {h},
                  !.results = IF answered THEN Append(@, h) ELSE @]
    /\ UNCHANGED <<sessvars, cmdvars, telvars, disc, dec, snapvars, racevars>>

NextScan ==
    \/ \E x \in {0} \cup ScanHosts : ScanSubnet(x)
    \/ ScanStart
    \/ ScanJoin
    \/ ScanJoinTimeout
    \/ ScanEarlyExit
    \/ \E h \in ScanHosts, answered \in BOOLEAN : ProbeEnds(h, answered)

SpecScan == InitDisc /\ [][NextScan]_vars

\* C35: during a subnet scan the number of probe threads running at the
\* same time never exceeds the concurrency cap, also when a join of a batch
\* timed out before its probes had ended.
C35_ProbesCapped == Cardinality(scan.alive) <= MaxScanThreads

\* ---------------------------------------------------------------------------
\* update (mqtt_client.py 636-657), the manual update behind
\* POST /api/status/update (routes.py 1418-1424): the payload is a dict.
ManualSlot ==
    [batteryInfo |-> "battery", electricInfo |-> "electric_info",
     rtkMSG |-> "rtk_status", motorInfo |-> "motor_info"]

ManualUpdate(topic, payload) ==
    /\ now < MaxClock
    /\ now' = now + 1
    /\ status_connected' = IF topic = "heart_beat" THEN TRUE
                           ELSE IF topic = "connected" THEN Truthy(payload)
                           ELSE status_connected
    /\ last_heartbeat' = IF topic = "heart_beat" THEN now + 1
                         ELSE IF topic = "last_heartbeat" THEN DeviceStamp
                         ELSE last_heartbeat
    /\ status' =
          CASE topic = "heart_beat" -> status
            [] topic \in DOMAIN ManualSlot ->
                  Put(status, ManualSlot[topic], payload)
            [] topic = "runningStatus" ->
                  Put(status, "running_status", payload)
            [] OTHER -> Put(status, topic, payload)
    /\ status_state' = IF topic = "runningStatus" /\ StateCode(payload) # NoVal
                       THEN DecodeState(StateCode(payload).items["v"])
                       ELSE status_state
    /\ last_op' = Op("update", NoCode, FALSE)
    /\ UNCHANGED <<sessvars, cmdvars, working_state_code, device_msg, trail,
                   trail_active, job_samples, disc, scan, dec, racevars,
                   got_ref, copy, control_commands, last_payload, last_msg,
                   tracked, dm>>

\* The session with its transport events, heartbeats and data feedback while
\* the link is up, and manual updates at any time.
FlagMsgs ==
    {[topic |-> "stateInfo", data |-> DictOf([k \in {key} |-> v])] :
        key \in {"heading", "connected", "last_heartbeat"},
        v \in {"false", "7"}}
    \cup {[topic |-> t, data |-> Scalar("text")] :
             t \in {"rtkMSG", "connected", "last_heartbeat"}}

ManualTopics == {"heart_beat", "rtkMSG", "connected"}

NextFlag ==
    \/ RouteStart
    \/ \E cb \in BOOLEAN : RouteReconnectStop(cb)
    \/ RouteReconnectStart
    \/ ConnectOk
    \/ ConnectRefused
    \/ Drop
    \/ link_state = "up" /\ Heartbeat(NoCode)
    \/ link_state = "up" /\ \E m \in FlagMsgs : DataFeedback(m, TRUE)
    \/ \E t \in ManualTopics : ManualUpdate(t, Level42)

SpecFlag == InitConn /\ [][NextFlag]_vars

\* C36: in every reachable state the snapshot's connection flag
\* (status["connected"]) equals the session's connection flag (is_connected).
C36_FlagsAgree == status_connected = connected

\* C39: routing a data-feedback message, whatever its inner topic and
\* payload, changes neither the snapshot's connection flag nor its
\* last-heartbeat stamp.  A step of the router is the one that moves the
\* last_data_feedback stamp.
C39_FeedbackKeepsFlag ==
    [][status'["last_data_feedback"] # status["last_data_feedback"] =>
          /\ status_connected' = status_connected
          /\ last_heartbeat' = last_heartbeat]_vars

\* ---------------------------------------------------------------------------
\* The transport clients of the session whose network loop runs: the one in
\* self._client between start() and stop(), and those start() replaced
\* without a stop() in between.
LoopsRunning == (IF link_state \in Running2 THEN 1 ELSE 0) + StaleTotal

\* C38: at most one transport client created by the session has its
\* network loop running at any time, for every interleaving of the callers
\* of stop() and start().
C38_OneLoopRunning == LoopsRunning <= 1

\* ---------------------------------------------------------------------------
\* The refresh threads of a session.  _start_refresh_thread (lines 562-587)
\* makes a new thread on every call and keeps only the newest in
\* self._refresh_thread; xport.loops counts the threads whose refresh_loop
\* has not returned.  A loop returns when it finds the stop event set
\* (line 567).
MaxRefreshThreads == 3

\* lines 211-232: on_connect with reason code 0, which ends in
\* _start_refresh_thread()
RefreshConnect ==
    /\ link_state = "connecting"
    /\ ProbePort(link_ip)
    /\ xport.loops < MaxRefreshThreads
    /\ link_state' = "up"
    /\ Connected
    /\ xport' = [xport EXCEPT !.loops = @ + 1]
    /\ UNCHANGED <<client, ipvars, rediscovery_in_progress, rediscovery_age,
                   stop_refresh, worker, route, link_ip, netvars,
                   cmdvars, telvars, disc, scan, dec, snapvars, lk>>

\* line 567: a refresh_loop finds the event set and returns
RefreshLoopExit ==
    /\ stop_refresh
    /\ xport.loops > 0
    /\ xport' = [xport EXCEPT !.loops = @ - 1]
    /\ UNCHANGED <<sessvars, cmdvars, telvars, disc, scan, dec, snapvars, lk>>

NextRefresh ==
    \/ RouteStart
    \/ \E cb \in BOOLEAN : RouteReconnectStop(cb)
    \/ RouteReconnectStart
    \/ \E a \in Addrs \cup {NoIp}, k \in Addrs \cup {NoIp}, cb \in BOOLEAN :
          RouteDiscover([ip |-> a, cache |-> k], cb)
    \/ RouteUpdateRestart
    \/ RefreshConnect
    \/ Drop
    \/ RefreshLoopExit
    \/ \E s \in Places : BrokerChange(s)

SpecRefresh == InitConn /\ [][NextRefresh]_vars

\* C37: at most one periodic-refresh thread of a session is alive at any
\* time.
C37_OneRefreshThread == xport.loops <= 1

\* ---------------------------------------------------------------------------
\* The rediscovery workers alone with the transport: start, connects and
\* drops, every outcome of discover_robot and the update_ip a worker runs.
\* The worker threads are daemon threads the interpreter schedules; a step
\* of a worker that stays possible is taken.
NextWorker ==
    \/ RouteStart
    \/ ConnectOk
    \/ Drop
    \/ ReconnectFails
    \/ WorkerStart
    \/ \E a \in Addrs \cup {NoIp, Raised}, k \in Addrs \cup {NoIp} :
          WorkerDiscover([ip |-> a, cache |-> k])
    \/ \E a \in Addrs, cb \in BOOLEAN : WorkerUpdateStop(a, cb)
    \/ \E a \in Addrs : WorkerUpdateRestart(a)
    \/ \E a \in Addrs : WorkerUnchanged(a)
    \/ \E s \in Places : BrokerChange(s)
    \/ Advance

FairWorker ==
    /\ InitConn /\ [][NextWorker]_vars
    /\ WF_vars(WorkerStart)
    /\ WF_vars(\E a \in Addrs \cup {NoIp, Raised}, k \in Addrs \cup {NoIp} :
                  WorkerDiscover([ip |-> a, cache |-> k]))
    /\ WF_vars(\E a \in Addrs, cb \in BOOLEAN : WorkerUpdateStop(a, cb))
    /\ WF_vars(\E a \in Addrs : WorkerUpdateRestart(a))
    /\ WF_vars(\E a \in Addrs : WorkerUnchanged(a))

\* C40: every rediscovery worker clears the rediscovery-in-progress flag
\* when it ends, whatever discovery returned or raised; the flag is clear
\* whenever no worker runs, and a flag that is set is eventually cleared, so
\* a worker that has finished never suppresses a later trigger.
C40_WorkerClearsFlag ==
    /\ [][Running(worker') < Running(worker) =>
             ~rediscovery_in_progress']_vars
    /\ [](Running(worker) = 0 => ~rediscovery_in_progress)
    /\ (rediscovery_in_progress ~> ~rediscovery_in_progress)

C40_Witness ==
    /\ Running(worker) = 0
    /\ ~rediscovery_in_progress
    /\ rediscovery_age = 0
    /\ link_state = "connecting"
    /\ robot_ip # ConfiguredIp
    /\ cached_ip = robot_ip
    /\ disconnect_count >= RediscoverAt

====
